---- MODULE Spec2Model ----
(***************************************************************************)
(* A model of kunit's dimensional-rescaling engine (kunit/core/fixed.py,   *)
(* kunit/core/units.py, kunit/core/engine.py) and of the registry that     *)
(* kunit/api.py and kunit/models build on top of it.                       *)
(*                                                                         *)
(* Text is modelled character by character: a string is a sequence of      *)
(* one-character strings.  A float is modelled as an exact decimal         *)
(* [m |-> mantissa, e |-> power of ten], normalised so that m is not       *)
(* divisible by ten (zero is [m |-> 0, e |-> 0]); binary rounding of the   *)
(* last bits of a float64 is not modelled.                                 *)
(***************************************************************************)
EXTENDS Integers, Sequences, FiniteSets, TLC

VARIABLES pc, call, args, ret, worker, heap

vars == <<pc, call, args, ret, worker, heap>>

(***************************************************************************)
(* Characters and Python's str methods on sequences of characters.         *)
(***************************************************************************)
Digits == <<"0", "1", "2", "3", "4", "5", "6", "7", "8", "9">>

IsDigit(c) == \E i \in 1..10 : Digits[i] = c

DigitVal(c) == (CHOOSE i \in 1..10 : Digits[i] = c) - 1

\* The ASCII whitespace these decks hold, of the characters str.strip() removes.
IsSpace(c) == c \in {" ", "\n", "\t", "\r"}

RECURSIVE LStrip(_)
LStrip(s) == IF s # <<>> /\ IsSpace(Head(s)) THEN LStrip(Tail(s)) ELSE s

RECURSIVE RStrip(_)
RStrip(s) ==
    IF s # <<>> /\ IsSpace(s[Len(s)]) THEN RStrip(SubSeq(s, 1, Len(s) - 1)) ELSE s

Strip(s) == RStrip(LStrip(s))

Spaces(n) == [i \in 1..n |-> " "]

Ljust(s, n) == IF Len(s) >= n THEN s ELSE s \o Spaces(n - Len(s))

Rjust(s, n) == IF Len(s) >= n THEN s ELSE Spaces(n - Len(s)) \o s

StartsWith(s, p) == Len(s) >= Len(p) /\ SubSeq(s, 1, Len(p)) = p

RECURSIVE Concat(_)
Concat(ss) == IF ss = <<>> THEN <<>> ELSE Head(ss) \o Concat(Tail(ss))

\* The characters of a string literal.
Chars(str) == [i \in 1..Len(str) |-> SubSeq(str, i, i)]

LowerLetters == Chars("abcdefghijklmnopqrstuvwxyz")

UpperLetters == Chars("ABCDEFGHIJKLMNOPQRSTUVWXYZ")

UpperChar(c) ==
    IF \E i \in 1..26 : LowerLetters[i] = c
    THEN UpperLetters[CHOOSE i \in 1..26 : LowerLetters[i] = c] ELSE c

LowerChar(c) ==
    IF \E i \in 1..26 : UpperLetters[i] = c
    THEN LowerLetters[CHOOSE i \in 1..26 : UpperLetters[i] = c] ELSE c

Upper(s) == [i \in 1..Len(s) |-> UpperChar(s[i])]

Lower(s) == [i \in 1..Len(s) |-> LowerChar(s[i])]

(***************************************************************************)
(* Exact decimal arithmetic standing for Python's float arithmetic.        *)
(***************************************************************************)
Abs(n) == IF n < 0 THEN -n ELSE n

SeqMin(a, b) == IF a < b THEN a ELSE b

RECURSIVE Pow10(_)
Pow10(n) == IF n = 0 THEN 1 ELSE 10 * Pow10(n - 1)

RECURSIVE Norm(_, _)
Norm(m, e) ==
    IF m = 0 THEN [m |-> 0, e |-> 0]
    ELSE IF m % 10 = 0 THEN Norm(m \div 10, e + 1)
    ELSE [m |-> m, e |-> e]

Dec(m, e) == Norm(m, e)

One == Dec(1, 0)

Mul(x, y) == Norm(x.m * y.m, x.e + y.e)

\* x / y; the quotients the program forms are of decimals whose mantissas divide.
Div(x, y) ==
    IF x.m % y.m = 0 THEN Norm(x.m \div y.m, x.e - y.e)
    ELSE CHOOSE q \in {} : TRUE

RECURSIVE PowNat(_, _)
PowNat(x, n) == IF n = 0 THEN One ELSE Mul(x, PowNat(x, n - 1))

\* x ** n for an integer n (a negative n inverts a power of ten).
PowInt(x, n) ==
    IF n >= 0 THEN PowNat(x, n)
    ELSE Div(One, PowNat(x, -n))

IsIntegral(x) == x.e >= 0

IntOf(x) == x.m * Pow10(x.e)

\* x ** y for a decimal y: an integral y, a base of one, or a power of ten
\* raised to an exponent that leaves a whole power of ten.
PowDec(x, y) ==
    IF x = One THEN One
    ELSE IF IsIntegral(y) THEN PowInt(x, IntOf(y))
    ELSE IF x.m = 1 /\ (x.e * y.m) % Pow10(-y.e) = 0
         THEN Dec(1, (x.e * y.m) \div Pow10(-y.e))
    ELSE CHOOSE q \in {} : TRUE

(***************************************************************************)
(* kunit/core/fixed.py                                                     *)
(***************************************************************************)
FIELD_WIDTH == 10

N_FIELDS == 8

\* split_fixed that pads and cuts the line with its newline still on it.
split_fixed_keep_newline(line) ==
    [i \in 1..N_FIELDS |->
        SubSeq(Ljust(line, FIELD_WIDTH * N_FIELDS), (i - 1) * FIELD_WIDTH + 1, i * FIELD_WIDTH)]

\* line[:-1] if line.endswith("\n"), padded to 80 columns, cut into 8 fields.
split_fixed(line) ==
    LET core0 == IF line # <<>> /\ line[Len(line)] = "\n"
                 THEN SubSeq(line, 1, Len(line) - 1) ELSE line
        core == Ljust(core0, FIELD_WIDTH * N_FIELDS)
    IN  [i \in 1..N_FIELDS |->
            SubSeq(core, (i - 1) * FIELD_WIDTH + 1, i * FIELD_WIDTH)]

\* The loop body of join_fixed with ljust in place of rjust.
JoinFieldLjust(f) ==
    Ljust(IF Len(Strip(f)) > FIELD_WIDTH THEN SubSeq(Strip(f), 1, FIELD_WIDTH) ELSE Strip(f),
          FIELD_WIDTH)

\* The loop body of join_fixed cutting the field to 10 characters before it
\* strips it.
JoinFieldCutFirst(f) ==
    Rjust(Strip(IF Len(f) > FIELD_WIDTH THEN SubSeq(f, 1, FIELD_WIDTH) ELSE f), FIELD_WIDTH)

JoinField(f) ==
    LET s == Strip(f)
        t == IF Len(s) > FIELD_WIDTH THEN SubSeq(s, 1, FIELD_WIDTH) ELSE s
    IN  Rjust(t, FIELD_WIDTH)

\* join_fixed without the line break.
join_fixed_no_newline(fields) == Concat([i \in 1..Len(fields) |-> JoinField(fields[i])])

\* join_fixed that drops the blank columns at the end of the line.
join_fixed_stripped(fields) ==
    RStrip(Concat([i \in 1..Len(fields) |-> JoinField(fields[i])])) \o <<"\n">>

join_fixed(fields) ==
    Concat([i \in 1..Len(fields) |-> JoinField(fields[i])]) \o <<"\n">>

\* The index of the first character of s that is in cs, 0 when there is none.
RECURSIVE IndexFrom(_, _, _)
IndexFrom(s, cs, i) ==
    IF i > Len(s) THEN 0 ELSE IF s[i] \in cs THEN i ELSE IndexFrom(s, cs, i + 1)

IndexOf(s, cs) == IndexFrom(s, cs, 1)

\* s before index i and s after index i; all of s and nothing when i = 0.
Before(s, i) == IF i = 0 THEN s ELSE SubSeq(s, 1, i - 1)

After(s, i) == IF i = 0 THEN <<>> ELSE SubSeq(s, i + 1, Len(s))

IsDigits(s) == \A i \in 1..Len(s) : IsDigit(s[i])

RECURSIVE DigitsVal(_)
DigitsVal(s) ==
    IF s = <<>> THEN 0 ELSE DigitsVal(SubSeq(s, 1, Len(s) - 1)) * 10 + DigitVal(s[Len(s)])

HasSign(s) == s # <<>> /\ s[1] \in {"-", "+"}

IsNeg(s) == s # <<>> /\ s[1] = "-"

Unsigned(s) == IF HasSign(s) THEN Tail(s) ELSE s

Signed(neg, n) == IF neg THEN 0 - n ELSE n

\* The value of the parts of a float literal: integer digits, fraction digits
\* and exponent text; ok is FALSE where the parts are no literal.
FloatOfParts(neg, int, frac, hasE, ex, ok) ==
    [ok |-> ok,
     val |-> IF ok
             THEN Dec(Signed(neg, DigitsVal(int \o frac)),
                      (IF hasE THEN Signed(IsNeg(ex), DigitsVal(Unsigned(ex))) ELSE 0)
                          - Len(frac))
             ELSE Dec(0, 0)]

FloatParts(neg, int, frac, hasE, ex) ==
    FloatOfParts(neg, int, frac, hasE, ex,
                 /\ IsDigits(int)
                 /\ IsDigits(frac)
                 /\ Len(int) + Len(frac) >= 1
                 /\ hasE => (Unsigned(ex) # <<>> /\ IsDigits(Unsigned(ex))))

FloatMantissa(mant, hasE, ex) ==
    FloatParts(IsNeg(mant), Before(Unsigned(mant), IndexOf(Unsigned(mant), {"."})),
               After(Unsigned(mant), IndexOf(Unsigned(mant), {"."})), hasE, ex)

\* The parse of a stripped token by Python's float(): [sign] digits [. digits]
\* [(e|E) [sign] digits], with a digit on one side of the point at least.
\* ok is FALSE where float() raises ValueError.
FloatParse(s) ==
    FloatMantissa(Before(s, IndexOf(s, {"e", "E"})), IndexOf(s, {"e", "E"}) > 0,
                  After(s, IndexOf(s, {"e", "E"})))

is_number(s) == FloatParse(Strip(s)).ok

\* float(s) for a token that is_number accepts.
Float(s) == FloatParse(Strip(s)).val

RECURSIVE NatStr(_)
NatStr(n) == IF n < 10 THEN <<Digits[n + 1]>> ELSE NatStr(n \div 10) \o <<Digits[(n % 10) + 1]>>

Zeros(n) == [i \in 1..n |-> "0"]

\* s[:n]
Take(s, n) == SubSeq(s, 1, SeqMin(n, Len(s)))

RoundHalfEven(q, r, half) == IF r > half \/ (r = half /\ q % 2 = 1) THEN q + 1 ELSE q

\* The digits a of a * 10^e with the last drop digits rounded away.
RoundDigits(a, e, drop) ==
    IF drop <= 0 THEN Norm(a, e)
    ELSE Norm(RoundHalfEven(a \div Pow10(drop), a % Pow10(drop), 5 * Pow10(drop - 1)),
              e + drop)

\* |x| rounded to at most p significant digits (half to even), as a decimal.
RoundSig(x, p) == RoundDigits(Abs(x.m), x.e, Len(NatStr(Abs(x.m))) - p)

\* The exponent part of a scientific rendering: sign and two digits at least.
ExpStr(X, letter) ==
    <<letter, IF X < 0 THEN "-" ELSE "+">>
        \o (IF Abs(X) < 10 THEN <<"0">> ELSE <<>>) \o NatStr(Abs(X))

SignStr(neg) == IF neg THEN <<"-">> ELSE <<>>

\* d.ddd followed by the exponent, for the digits ds.
Sci(ds, X, letter) ==
    <<ds[1]>> \o (IF Len(ds) > 1 THEN <<".">> \o SubSeq(ds, 2, Len(ds)) ELSE <<>>)
        \o ExpStr(X, letter)

\* The digits ds times 10^E in positional notation.
Fixed(ds, E) ==
    IF E >= 0 THEN ds \o Zeros(E)
    ELSE IF Len(ds) > 0 - E
         THEN SubSeq(ds, 1, Len(ds) + E) \o <<".">> \o SubSeq(ds, Len(ds) + E + 1, Len(ds))
    ELSE <<"0", ".">> \o Zeros(0 - E - Len(ds)) \o ds

GDigits(prec, ds, E) ==
    IF Len(ds) - 1 + E < -4 \/ Len(ds) - 1 + E >= prec
    THEN Sci(ds, Len(ds) - 1 + E, "e") ELSE Fixed(ds, E)

GRounded(prec, r) == GDigits(prec, NatStr(r.m), r.e)

\* f"{v:.{prec}g}" for v # 0: fixed notation when -4 <= X < prec, scientific
\* otherwise, trailing zeros removed in both.
FormatG(v, prec) == SignStr(v.m < 0) \o GRounded(prec, RoundSig(v, prec))

EDigits(prec, ds, E) == Sci(ds \o Zeros(prec + 1 - Len(ds)), Len(ds) - 1 + E, "E")

ERounded(prec, r) == EDigits(prec, NatStr(r.m), r.e)

\* f"{v:.{prec}E}" for v # 0: one digit, prec digits after the point, E+XX.
FormatE(v, prec) == SignStr(v.m < 0) \o ERounded(prec, RoundSig(v, prec + 1))

\* The renderings of format_lsdyna_10 with the E loop before the g loop.
AttemptsScientificFirst ==
    <<[g |-> FALSE, prec |-> 4], [g |-> FALSE, prec |-> 3], [g |-> FALSE, prec |-> 2],
      [g |-> FALSE, prec |-> 1], [g |-> FALSE, prec |-> 0],
      [g |-> TRUE, prec |-> 9], [g |-> TRUE, prec |-> 8], [g |-> TRUE, prec |-> 7],
      [g |-> TRUE, prec |-> 6], [g |-> TRUE, prec |-> 5], [g |-> TRUE, prec |-> 4]>>

\* The renderings format_lsdyna_10 tries, in order.
Attempts ==
    <<[g |-> TRUE, prec |-> 9], [g |-> TRUE, prec |-> 8], [g |-> TRUE, prec |-> 7],
      [g |-> TRUE, prec |-> 6], [g |-> TRUE, prec |-> 5], [g |-> TRUE, prec |-> 4],
      [g |-> FALSE, prec |-> 4], [g |-> FALSE, prec |-> 3], [g |-> FALSE, prec |-> 2],
      [g |-> FALSE, prec |-> 1], [g |-> FALSE, prec |-> 0]>>

Render(v, a) == IF a.g THEN FormatG(v, a.prec) ELSE FormatE(v, a.prec)

FitOr(s, rest) == IF Len(s) <= 10 THEN s ELSE rest

\* The first rendering that fits the field; the truncated last resort otherwise.
RECURSIVE FirstFit(_, _)
FirstFit(v, as) ==
    IF as = <<>> THEN Take(FormatE(v, 3), 10)
    ELSE FitOr(Render(v, Head(as)), FirstFit(v, Tail(as)))

format_lsdyna_10(v) ==
    IF v.m = 0 THEN <<"0", ".", "0">> ELSE FirstFit(v, Attempts)

(***************************************************************************)
(* kunit/core/units.py                                                     *)
(***************************************************************************)
BaseUnits(length_si, mass_si, time_si) ==
    [length_si |-> length_si, mass_si |-> mass_si, time_si |-> time_si]

UnitKeys == {"mm-mg-us", "cm-g-us", "m-kg-s", "mm-mg-ms"}

BASE_SYSTEMS ==
    [k \in UnitKeys |->
        CASE k = "mm-mg-us" -> BaseUnits(Dec(1, -3), Dec(1, -6), Dec(1, -6))
          [] k = "cm-g-us" -> BaseUnits(Dec(1, -2), Dec(1, -3), Dec(1, -6))
          [] k = "m-kg-s" -> BaseUnits(Dec(1, 0), Dec(1, 0), Dec(1, 0))
          [] k = "mm-mg-ms" -> BaseUnits(Dec(1, -3), Dec(1, -6), Dec(1, -3))]

\* scale_factor with the mass and length ratios exchanged.
scale_factor_swapped(src, dst, dim) ==
    Mul(Mul(PowInt(Div(src.length_si, dst.length_si), dim[1]),
            PowInt(Div(src.mass_si, dst.mass_si), dim[2])),
        PowInt(Div(src.time_si, dst.time_si), dim[3]))

\* scale_factor that reads the source system as SI.
scale_factor_dst_only(src, dst, dim) ==
    Mul(Mul(PowInt(Div(One, dst.mass_si), dim[1]),
            PowInt(Div(One, dst.length_si), dim[2])),
        PowInt(Div(One, dst.time_si), dim[3]))

\* scale_factor with products where the code has ratios.
scale_factor_product(src, dst, dim) ==
    Mul(Mul(PowInt(Mul(src.mass_si, dst.mass_si), dim[1]),
            PowInt(Mul(src.length_si, dst.length_si), dim[2])),
        PowInt(Mul(src.time_si, dst.time_si), dim[3]))

scale_factor(src, dst, dim) ==
    LET a == dim[1]
        b == dim[2]
        c == dim[3]
    IN  Mul(Mul(PowInt(Div(src.mass_si, dst.mass_si), a),
                PowInt(Div(src.length_si, dst.length_si), b)),
            PowInt(Div(src.time_si, dst.time_si), c))

(***************************************************************************)
(* kunit/core/engine.py                                                    *)
(*                                                                         *)
(* An Optional[X] is None (the empty tuple) or Some(x) (a one-tuple).  A   *)
(* dict is a function; dict.get(k) is DictGet.                             *)
(***************************************************************************)
None == <<>>

Some(x) == <<x>>

DictGet(d, k) == IF k \in DOMAIN d THEN d[k] ELSE None

EmptyDict == [k \in {} |-> None]

KeywordSpec(name, keyword_prefix, cards, dims) ==
    [name |-> name, keyword_prefix |-> keyword_prefix, cards |-> cards, dims |-> dims]

FieldTransform(power, multiplier, offset, dim, scale_dim, scale_dim_field, scale_power_field, scale_power) ==
    [power |-> power, multiplier |-> multiplier, offset |-> offset, dim |-> dim,
     scale_dim |-> scale_dim, scale_dim_field |-> scale_dim_field,
     scale_power_field |-> scale_power_field, scale_power |-> scale_power]

\* x + y on decimals.
Add(x, y) ==
    IF y.m = 0 THEN x
    ELSE IF x.m = 0 THEN y
    ELSE LET e0 == SeqMin(x.e, y.e)
         IN  Norm(x.m * Pow10(x.e - e0) + y.m * Pow10(y.e - e0), e0)

\* scale_exponent that prefers the fixed scale_power to the field.
scale_exponent_power_first(self, context) ==
    IF self.scale_power # None THEN self.scale_power[1]
    ELSE IF /\ self.scale_power_field # None
            /\ self.scale_power_field[1] \in DOMAIN context
         THEN context[self.scale_power_field[1]]
    ELSE One

scale_exponent(self, context) ==
    IF /\ self.scale_power_field # None
       /\ self.scale_power_field[1] # ""
       /\ self.scale_power_field[1] \in DOMAIN context
    THEN context[self.scale_power_field[1]]
    ELSE IF self.scale_power # None THEN self.scale_power[1]
    ELSE One

has_custom_scaling(self) ==
    \/ self.scale_dim # None
    \/ self.scale_dim_field # None
    \/ self.scale_power_field # None
    \/ self.scale_power # None

\* apply with the affine part inside the power.
apply_affine_first(self, value) ==
    PowDec(Add(Mul(value, self.multiplier), self.offset), self.power)

apply(self, value) == Add(Mul(PowDec(value, self.power), self.multiplier), self.offset)

_is_data_line(line) ==
    LET s == LStrip(line)
    IN  IF s = <<>> \/ s[1] \in {"*", "$"} THEN FALSE
        ELSE is_number(Strip(split_fixed(line)[1]))

\* The indices collected by the loop over block[i..], idxs being those
\* collected so far; the loop breaks once len(idxs) == n after an append.
RECURSIVE ExtractFrom(_, _, _, _)
ExtractFrom(block, n, i, idxs) ==
    IF i > Len(block) THEN idxs
    ELSE IF _is_data_line(block[i])
         THEN IF Len(idxs) + 1 = n THEN Append(idxs, i)
              ELSE ExtractFrom(block, n, i + 1, Append(idxs, i))
    ELSE ExtractFrom(block, n, i + 1, idxs)

\* The indices of the last n data lines of the block (all where fewer).
_extract_last_data_lines(block, n) ==
    [k \in 1..SeqMin(n, Cardinality({i \in 1..Len(block) : _is_data_line(block[i])})) |->
        CHOOSE i \in {j \in 1..Len(block) : _is_data_line(block[j])} :
            Cardinality({j \in i..Len(block) : _is_data_line(block[j])})
                = SeqMin(n, Cardinality({j \in 1..Len(block) : _is_data_line(block[j])})) - k + 1]

_extract_data_lines(block, n) == ExtractFrom(block, n, 1, <<>>)

\* The dimension the field is scaled by: transform.dim, else dims.get(name).
\* ResolveDim that takes a field without a dims entry for a pressure.
ResolveDimOrPressure(field_name, dims, transform) ==
    IF transform # None /\ transform[1].dim # None THEN transform[1].dim
    ELSE IF DictGet(dims, field_name) # None THEN DictGet(dims, field_name)
    ELSE Some(<<1, -1, -2>>)

ResolveDim(field_name, dims, transform) ==
    IF transform # None /\ transform[1].dim # None THEN transform[1].dim
    ELSE DictGet(dims, field_name)

\* ResolveScaleDim that looks at scale_dim_field before scale_dim.
ResolveScaleDimFieldFirst(t, dims, dim) ==
    IF t.scale_dim_field # None THEN dims[t.scale_dim_field[1]]
    ELSE IF t.scale_dim # None THEN t.scale_dim
    ELSE IF dim # None THEN dim
    ELSE None

\* The dimension of the secondary scale factor of a custom-scaling transform
\* t; the caller has checked that a scale_dim_field it reads is a key of dims.
ResolveScaleDim(t, dims, dim) ==
    IF t.scale_dim # None THEN t.scale_dim
    ELSE IF t.scale_dim_field # None THEN dims[t.scale_dim_field[1]]
    ELSE IF dim # None THEN dim
    ELSE None

\* ScaleValue that applies the field's own dimension factor under custom
\* scaling as well.
ScaleValueBoth(value, src, dst, dims, transform, ctx, dim) ==
    LET Own(v) == IF dim # None THEN Mul(v, scale_factor(src, dst, dim[1])) ELSE v
    IN  IF transform # None /\ has_custom_scaling(transform[1])
             /\ ResolveScaleDim(transform[1], dims, dim) # None
        THEN Own(Mul(value, PowDec(scale_factor(src, dst,
                                                ResolveScaleDim(transform[1], dims, dim)[1]),
                                   scale_exponent(transform[1], ctx))))
        ELSE Own(value)

\* The value after scaling and before transform.apply.
ScaleValue(value, src, dst, dims, transform, ctx, dim) ==
    IF transform # None /\ has_custom_scaling(transform[1])
    THEN IF ResolveScaleDim(transform[1], dims, dim) # None
         THEN Mul(value, PowDec(scale_factor(src, dst,
                                             ResolveScaleDim(transform[1], dims, dim)[1]),
                                scale_exponent(transform[1], ctx)))
         ELSE value
    ELSE IF dim # None THEN Mul(value, scale_factor(src, dst, dim[1]))
    ELSE value

\* A test that also takes a scale_dim_field with a None dims entry as unknown.
UnknownOrNoneScaleDimField(dims, transform) ==
    /\ transform # None
    /\ has_custom_scaling(transform[1])
    /\ transform[1].scale_dim = None
    /\ transform[1].scale_dim_field # None
    /\ \/ transform[1].scale_dim_field[1] \notin DOMAIN dims
       \/ dims[transform[1].scale_dim_field[1]] = None

\* The test of "raise ValueError(Unknown scale_dim_field ...)".
UnknownScaleDimField(dims, transform) ==
    /\ transform # None
    /\ has_custom_scaling(transform[1])
    /\ transform[1].scale_dim = None
    /\ transform[1].scale_dim_field # None
    /\ transform[1].scale_dim_field[1] \notin DOMAIN dims

\* ValueError(f"Unknown scale_dim_field '{transform.scale_dim_field}' for
\* '{field_name}'"): the message by its parts.
UnknownScaleDimFieldError(transform, field_name) ==
    [type |-> "ValueError", text |-> "Unknown scale_dim_field",
     names |-> <<transform[1].scale_dim_field[1], field_name>>]

\* _convert_field with its local variables at the return (or at the raise):
\* raised is TRUE where it raises ValueError, out is the string returned.
ConvertFieldLocals(field_name, raw_field, src, dst, dims, transform, context) ==
    LET Returned(s, dim, custom, scaled, value) ==
            [raised |-> FALSE, numeric |-> TRUE, s |-> s, dim |-> dim,
             scale_dim |-> IF custom
                           THEN ResolveScaleDim(transform[1], dims, dim) ELSE None,
             exponent |-> IF custom
                          THEN Some(scale_exponent(transform[1], context)) ELSE None,
             scaled |-> Some(scaled), value |-> Some(value),
             out |-> format_lsdyna_10(value), error |-> None]
        Scaled(s, dim, scaled) ==
            Returned(s, dim, transform # None /\ has_custom_scaling(transform[1]), scaled,
                     IF transform # None THEN apply(transform[1], scaled) ELSE scaled)
        Numeric(s, dim) ==
            IF UnknownScaleDimField(dims, transform)
            THEN [raised |-> TRUE, numeric |-> TRUE, s |-> s, dim |-> dim,
                  scale_dim |-> None, exponent |-> None, scaled |-> None,
                  value |-> None, out |-> None,
                  error |-> Some(UnknownScaleDimFieldError(transform, field_name))]
            ELSE Scaled(s, dim, ScaleValue(Float(s), src, dst, dims, transform, context, dim))
        Stripped(s) ==
            IF s = <<>> \/ ~is_number(s)
            THEN [raised |-> FALSE, numeric |-> FALSE, s |-> s, dim |-> None,
                  scale_dim |-> None, exponent |-> None, scaled |-> None,
                  value |-> None, out |-> s, error |-> None]
            ELSE Numeric(s, ResolveDim(field_name, dims, transform))
    IN  Stripped(Strip(raw_field))

\* _convert_field that looks up scale_dim_field before it tests the token.
ConvertFieldRaiseFirst(field_name, raw_field, src, dst, dims, transform, context) ==
    IF UnknownScaleDimField(dims, transform)
    THEN [raised |-> TRUE, numeric |-> FALSE, s |-> Strip(raw_field), dim |-> None,
          scale_dim |-> None, exponent |-> None, scaled |-> None,
          value |-> None, out |-> None,
          error |-> Some(UnknownScaleDimFieldError(transform, field_name))]
    ELSE ConvertFieldLocals(field_name, raw_field, src, dst, dims, transform, context)

_convert_field(field_name, raw_field, src, dst, dims, transform, context) ==
    ConvertFieldLocals(field_name, raw_field, src, dst, dims, transform, context)

\* The skip markers without "eosid".
SkipNamesWithoutEosid == {"mid", "_"}

SkipNames == {"mid", "eosid", "_"}

\* zip(card_fields, split_fixed(line)) as a sequence of [name, raw] records.
ZipCard(card_fields, line) ==
    LET fields == split_fixed(line)
    IN  [j \in 1..SeqMin(Len(card_fields), Len(fields)) |->
            [name |-> card_fields[j], raw |-> fields[j]]]

\* zip(data_idxs, spec.cards), every pair zipped into its fields.
ZipBlock(block, data_idxs, cards) ==
    [k \in 1..SeqMin(Len(data_idxs), Len(cards)) |-> ZipCard(cards[k], block[data_idxs[k]])]

\* The positions of the pairs that the first loop of convert_block stores:
\* those with a numeric token under a name that is no skip name.
Stored(pairs) ==
    {i \in 1..Len(pairs) : pairs[i].name \notin SkipNames /\ is_number(Strip(pairs[i].raw))}

\* A context that holds the fields of the first data line only, as it would
\* be after one card of a loop that stored and rewrote card by card.
BuildContextFirstCard(pairs, context) ==
    [name \in DOMAIN context
                  \cup {pairs[i].name : i \in {j \in Stored(pairs) : j <= N_FIELDS}} |->
        IF \E i \in Stored(pairs) : i <= N_FIELDS /\ pairs[i].name = name
        THEN Float(Strip(pairs[CHOOSE i \in Stored(pairs) :
                                   i <= N_FIELDS /\ pairs[i].name = name].raw))
        ELSE context[name]]

\* The first loop of convert_block over the zipped fields, in order:
\* context[name] = float(raw_val) for every stored pair, the last one of a
\* name standing.
BuildContext(pairs, context) ==
    LET Last(name, at) ==
            CHOOSE i \in at :
                pairs[i].name = name /\ \A j \in at : (pairs[j].name = name) => (j <= i)
        Over(at) ==
            [name \in DOMAIN context \cup {pairs[i].name : i \in at} |->
                IF \E i \in at : pairs[i].name = name
                THEN Float(Strip(pairs[Last(name, at)].raw))
                ELSE context[name]]
    IN  Over(Stored(pairs))

\* custom_transforms.get(spec.name, {}) if custom_transforms else {}
SpecTransforms(spec, custom_transforms) ==
    IF custom_transforms # None /\ DOMAIN custom_transforms[1] # {}
       /\ spec.name \in DOMAIN custom_transforms[1]
    THEN custom_transforms[1][spec.name]
    ELSE EmptyDict

\* An early return for blocks without any data line only.
MalformedIfEmpty(data_idxs, spec) == Len(data_idxs) = 0

\* The test of the early return of convert_block.
Malformed(data_idxs, spec) == Len(data_idxs) < Len(spec.cards)

\* One field of the second loop of convert_block, as _convert_field's locals.
RewriteField(pair, spec, src, dst, spec_transforms, context) ==
    IF pair.name \in SkipNames
    THEN [raised |-> FALSE, numeric |-> FALSE, s |-> Strip(pair.raw), dim |-> None,
          scale_dim |-> None, exponent |-> None, scaled |-> None,
          value |-> None, out |-> Strip(pair.raw), error |-> None]
    ELSE _convert_field(pair.name, pair.raw, src, dst, spec.dims,
                        IF pair.name \in DOMAIN spec_transforms
                        THEN Some(spec_transforms[pair.name]) ELSE None,
                        context)

\* The error of the first field, in conversion order, that raised.
RECURSIVE FirstError(_)
FirstError(fields) ==
    IF fields = <<>> THEN None
    ELSE IF Head(fields).raised THEN Head(fields).error
    ELSE FirstError(Tail(fields))

\* The number of fields, in conversion order, whose number _convert_field
\* scaled and formatted before the first field that raised (all of them
\* where none raised).
ConvertedBefore(fields) ==
    Cardinality({i \in 1..Len(fields) :
                    /\ fields[i].numeric
                    /\ \A j \in 1..i : ~fields[j].raised})

\* The block with its data lines replaced by the joined outputs of new.
RewriteLines(block, data_idxs, new) ==
    [i \in 1..Len(block) |->
        IF \E k \in 1..Len(new) : data_idxs[k] = i
        THEN join_fixed([j \in 1..Len(new[CHOOSE k \in 1..Len(new) : data_idxs[k] = i]) |->
                            new[CHOOSE k \in 1..Len(new) : data_idxs[k] = i][j].out])
        ELSE block[i]]

\* The second loop of convert_block over the zipped fields, and what
\* convert_block returns after it: out is the list returned, raised is TRUE
\* where a _convert_field raises.
SecondLoop(block, spec, src, dst, custom_transforms, data_idxs, zipped, context) ==
    LET Rewritten(new) ==
            IF \E k \in 1..Len(new) : \E j \in 1..Len(new[k]) : new[k][j].raised
            THEN [raised |-> TRUE, rewritten |-> FALSE, data_idxs |-> data_idxs,
                  context |-> context, fields |-> <<>>, out |-> <<>>,
                  error |-> FirstError(Concat(new)),
                  converted |-> ConvertedBefore(Concat(new))]
            ELSE [raised |-> FALSE, rewritten |-> TRUE, data_idxs |-> data_idxs,
                  context |-> context, fields |-> new,
                  out |-> RewriteLines(block, data_idxs, new), error |-> None,
                  converted |-> ConvertedBefore(Concat(new))]
    IN  Rewritten([k \in 1..Len(zipped) |->
                      [j \in 1..Len(zipped[k]) |->
                          RewriteField(zipped[k][j], spec, src, dst,
                                       SpecTransforms(spec, custom_transforms), context)]])

\* convert_block with its local variables: out is the list returned, raised is
\* TRUE where a _convert_field raises, rewritten is FALSE on the early return.
ConvertBlockLocals(block, spec, src, dst, custom_transforms) ==
    LET Zipped(data_idxs, zipped) ==
            SecondLoop(block, spec, src, dst, custom_transforms, data_idxs, zipped,
                       BuildContext(Concat(zipped), EmptyDict))
        Extracted(data_idxs) ==
            IF Malformed(data_idxs, spec)
            THEN [raised |-> FALSE, rewritten |-> FALSE, data_idxs |-> data_idxs,
                  context |-> EmptyDict, fields |-> <<>>, out |-> block, error |-> None,
                  converted |-> 0]
            ELSE Zipped(data_idxs, ZipBlock(block, data_idxs, spec.cards))
    IN  Extracted(_extract_data_lines(block, Len(spec.cards)))

convert_block(block, spec, src, dst, custom_transforms) ==
    ConvertBlockLocals(block, spec, src, dst, custom_transforms)

\* The last spec of spec_map whose upper-cased prefix starts u, or None.
RECURSIVE LastMatch(_, _)
LastMatch(u, specs) ==
    IF specs = <<>> THEN None
    ELSE IF StartsWith(u, Upper(specs[Len(specs)].keyword_prefix)) THEN Some(specs[Len(specs)])
    ELSE LastMatch(u, SubSeq(specs, 1, Len(specs) - 1))

\* The first spec of spec_map whose upper-cased prefix starts u, or None.
RECURSIVE FirstMatch(_, _)
FirstMatch(u, specs) ==
    IF specs = <<>> THEN None
    ELSE IF StartsWith(u, Upper(Head(specs).keyword_prefix)) THEN Some(Head(specs))
    ELSE FirstMatch(u, Tail(specs))

\* The same, the line taken as it is, blanks before a "*" included.
RECURSIVE BlockEndUnstripped(_, _)
BlockEndUnstripped(lines, i) ==
    IF i <= Len(lines) /\ ~StartsWith(lines[i], <<"*">>)
    THEN BlockEndUnstripped(lines, i + 1) ELSE i

\* The index after the block that starts at line i: the next line that
\* starts with "*" after lstrip, or len(lines) + 1.
RECURSIVE BlockEnd(_, _)
BlockEnd(lines, i) ==
    IF i <= Len(lines) /\ ~StartsWith(LStrip(lines[i]), <<"*">>)
    THEN BlockEnd(lines, i + 1) ELSE i

\* The while loop of convert_text from index i on, out being the lines
\* emitted so far and trace the iterations done so far: the index i each
\* started at, the name of the spec it matched, and the index it left i at.
\* Where convert_block raises, partial is the out list at that moment.
RECURSIVE ScanFrom(_, _, _, _, _, _, _, _)
ScanFrom(lines, i, out, trace, specs, src, dst, custom_transforms) ==
    LET Step(matched, j) == Append(trace, [i |-> i, matched |-> matched, next |-> j])
        Converted(name, j, r) ==
            IF r.raised
            THEN [raised |-> TRUE, out |-> <<>>, error |-> r.error, partial |-> out,
                  converted |-> r.converted, trace |-> Step(Some(name), j)]
            ELSE ScanFrom(lines, j, out \o r.out, Step(Some(name), j), specs, src, dst,
                          custom_transforms)
        Block(matched, j) ==
            Converted(matched[1].name, j,
                      convert_block(SubSeq(lines, i, j - 1), matched[1], src, dst,
                                    custom_transforms))
        Matched(matched) ==
            IF matched = None
            THEN ScanFrom(lines, i + 1, Append(out, lines[i]), Step(None, i + 1), specs,
                          src, dst, custom_transforms)
            ELSE Block(matched, BlockEnd(lines, i + 1))
    IN  IF i > Len(lines)
        THEN [raised |-> FALSE, out |-> out, error |-> None, partial |-> <<>>,
              converted |-> 0, trace |-> trace]
        ELSE Matched(FirstMatch(Upper(LStrip(lines[i])), specs))

\* text.splitlines(keepends=True), the line break being "\n".
RECURSIVE SplitLines(_, _)
SplitLines(text, cur) ==
    LET AtNewlines(nl) ==
            IF nl = {} THEN (IF cur \o text = <<>> THEN <<>> ELSE <<cur \o text>>)
            ELSE <<cur \o SubSeq(text, 1, CHOOSE i \in nl : \A j \in nl : i <= j)>>
                     \o SplitLines(SubSeq(text, (CHOOSE i \in nl : \A j \in nl : i <= j) + 1,
                                          Len(text)), <<>>)
    IN  AtNewlines({i \in 1..Len(text) : text[i] = "\n"})

convert_text(text, specs, src, dst, custom_transforms) ==
    LET Scanned(r) ==
            [raised |-> r.raised, lines |-> r.out, out |-> Concat(r.out), error |-> r.error,
             partial |-> r.partial, converted |-> r.converted, trace |-> r.trace]
    IN  Scanned(ScanFrom(SplitLines(text, <<>>), 1, <<>>, <<>>, specs, src, dst,
                         custom_transforms))

(***************************************************************************)
(* kunit/models: the spec tables and the registry.                         *)
(***************************************************************************)
MAT_JC_CARDS ==
    <<<<"mid", "ro", "g", "e", "pr", "dtf", "vp", "rateop">>,
      <<"a", "b", "n", "c", "m", "tm", "tr", "epso">>,
      <<"cp", "pc", "spall", "it", "d1", "d2", "d3", "d4">>,
      <<"d5", "c2/p/xnp", "erod", "efmin", "numint", "_", "_", "dmodel">>>>

MAT_JC_DIMS ==
    "ro" :> Some(<<1, -3, 0>>) @@
    "g" :> Some(<<1, -1, -2>>) @@
    "e" :> Some(<<1, -1, -2>>) @@
    "a" :> Some(<<1, -1, -2>>) @@
    "b" :> Some(<<1, -1, -2>>) @@
    "pc" :> Some(<<1, -1, -2>>) @@
    "cp" :> Some(<<0, 2, -2>>) @@
    "epso" :> Some(<<0, 0, -1>>)

\* The keyword arguments mat_johnson_cook.py passes to KeywordSpec.
MAT_JC_KWARGS == {"name", "keyword_prefix", "cards", "dims"}

MAT_JC ==
    KeywordSpec("mat-jc", Chars("*MAT_JOHNSON_COOK"), MAT_JC_CARDS, MAT_JC_DIMS)

EOS_GRUNEISEN_CARDS ==
    <<<<"eosid", "c", "s1", "s2", "s3", "gamma0", "a", "e0">>,
      <<"v0", "_", "lcid", "_", "_", "_", "_", "_">>>>

EOS_GRUNEISEN_DIMS ==
    "c" :> Some(<<0, 1, -1>>) @@
    "e0" :> Some(<<1, -1, -2>>)

\* The keyword arguments eos_gruneisen.py passes to KeywordSpec.
EOS_GRUNEISEN_KWARGS == {"name", "keyword_prefix", "cards", "dims"}

EOS_GRUNEISEN ==
    KeywordSpec("eos-gruneisen", Chars("*EOS_GRUNEISEN"), EOS_GRUNEISEN_CARDS, EOS_GRUNEISEN_DIMS)

EOS_IGNITION_GROWTH_CARDS ==
    <<<<"eosid", "a", "b", "xp1", "xp2", "frer", "g", "r1">>,
      <<"r2", "r3", "r5", "r6", "fmxig", "freq", "grow1", "em">>,
      <<"ar1", "es1", "cvp", "cvr", "eetal", "ccrit", "enq", "tmp0">>,
      <<"grow2", "ar2", "es2", "en", "fmxgr", "fmngr", "_", "_">>>>

EOS_IGNITION_GROWTH_DIMS ==
    "a" :> Some(<<1, -1, -2>>) @@
    "b" :> Some(<<1, -1, -2>>) @@
    "r1" :> Some(<<1, -1, -2>>) @@
    "r2" :> Some(<<1, -1, -2>>) @@
    "fmxig" :> Some(<<1, -1, -2>>) @@
    "cvp" :> Some(<<1, -1, -2>>) @@
    "cvr" :> Some(<<1, -1, -2>>) @@
    "g" :> Some(<<0, 2, -2>>) @@
    "r3" :> Some(<<0, 2, -2>>) @@
    "freq" :> Some(<<0, 0, -1>>) @@
    "grow1" :> Some(<<0, 0, -1>>) @@
    "grow2" :> Some(<<0, 0, -1>>) @@
    "fmxgr" :> Some(<<0, 0, -1>>) @@
    "fmngr" :> Some(<<0, 0, -1>>)

\* The transforms the module declares for the spec.
EOS_IGNITION_GROWTH_TRANSFORMS ==
    "grow1" :> FieldTransform(One, One, Dec(0, 0), Some(<<0, 0, -1>>), Some(<<1, -1, -2>>),
        None, Some("es1"), None) @@
    "grow2" :> FieldTransform(One, One, Dec(0, 0), Some(<<0, 0, -1>>), Some(<<1, -1, -2>>),
        None, Some("es2"), None)

\* The keyword arguments eos_ignition_growth.py passes to KeywordSpec.
EOS_IGNITION_GROWTH_KWARGS == {"name", "keyword_prefix", "cards", "dims", "transforms"}

EOS_IGNITION_GROWTH ==
    KeywordSpec("eos-ignition-growth", Chars("*EOS_IGNITION_AND_GROWTH_OF_REACTION_IN_HE"), EOS_IGNITION_GROWTH_CARDS, EOS_IGNITION_GROWTH_DIMS)

EOS_JWL_CARDS ==
    <<<<"eosid", "a", "b", "r1", "r2", "omeg", "e0", "vo">>>>

EOS_JWL_DIMS ==
    "a" :> Some(<<1, -1, -2>>) @@
    "b" :> Some(<<1, -1, -2>>) @@
    "e0" :> Some(<<1, -1, -2>>)

\* The keyword arguments eos_jwl.py passes to KeywordSpec.
EOS_JWL_KWARGS == {"name", "keyword_prefix", "cards", "dims"}

EOS_JWL ==
    KeywordSpec("eos-jwl", Chars("*EOS_JWL"), EOS_JWL_CARDS, EOS_JWL_DIMS)

MAT_HE_BURN_CARDS ==
    <<<<"mid", "ro", "d", "pcj", "beta", "k", "g", "sigy">>>>

MAT_HE_BURN_DIMS ==
    "ro" :> Some(<<1, -3, 0>>) @@
    "d" :> Some(<<0, 1, -1>>) @@
    "pcj" :> Some(<<1, -1, -2>>) @@
    "sigy" :> Some(<<1, -1, -2>>)

\* The keyword arguments mat_high_explosive_burn.py passes to KeywordSpec.
MAT_HE_BURN_KWARGS == {"name", "keyword_prefix", "cards", "dims"}

MAT_HE_BURN ==
    KeywordSpec("mat-he-burn", Chars("*MAT_HIGH_EXPLOSIVE_BURN"), MAT_HE_BURN_CARDS, MAT_HE_BURN_DIMS)

EOS_JWLB_CARDS ==
    <<<<"eosid", "a1", "a2", "a3", "a4", "a5", "_", "_">>,
      <<"r1", "r2", "r3", "r4", "r5", "_", "_", "_">>,
      <<"al1", "al2", "al3", "al4", "al5", "_", "_", "_">>,
      <<"bl1", "bl2", "bl3", "bl4", "bl5", "_", "_", "_">>,
      <<"rl1", "rl2", "rl3", "rl4", "rl5", "_", "_", "_">>,
      <<"c", "omega", "e", "v0", "_", "_", "_", "_">>>>

EOS_JWLB_DIMS ==
    "a1" :> Some(<<1, -1, -2>>) @@
    "a2" :> Some(<<1, -1, -2>>) @@
    "a3" :> Some(<<1, -1, -2>>) @@
    "a4" :> Some(<<1, -1, -2>>) @@
    "a5" :> Some(<<1, -1, -2>>) @@
    "c" :> Some(<<1, -1, -2>>) @@
    "e" :> Some(<<1, -1, -2>>)

\* The keyword arguments eos_jwlb.py passes to KeywordSpec.
EOS_JWLB_KWARGS == {"name", "keyword_prefix", "cards", "dims"}

EOS_JWLB ==
    KeywordSpec("eos-jwlb", Chars("*EOS_JWLB"), EOS_JWLB_CARDS, EOS_JWLB_DIMS)

MAT_NULL_CARDS ==
    <<<<"mid", "ro", "pc", "mu", "terod", "cerod", "ym", "pr">>>>

MAT_NULL_DIMS ==
    "ro" :> Some(<<1, -3, 0>>) @@
    "mu" :> Some(<<1, -1, -1>>) @@
    "pc" :> Some(<<1, -1, -2>>) @@
    "ym" :> Some(<<1, -1, -2>>) @@
    "a" :> Some(<<1, -1, -2>>)

\* The keyword arguments mat_null.py passes to KeywordSpec.
MAT_NULL_KWARGS == {"name", "keyword_prefix", "cards", "dims"}

MAT_NULL ==
    KeywordSpec("mat-null", Chars("*MAT_NULL"), MAT_NULL_CARDS, MAT_NULL_DIMS)

\* The fields of the KeywordSpec dataclass: the keyword arguments its
\* generated __init__ accepts.
KeywordSpecFields == {"name", "keyword_prefix", "cards", "dims"}

\* The SPEC constructions that importing kunit.models runs, in import order.
ModelsImports ==
    <<EOS_GRUNEISEN_KWARGS, EOS_IGNITION_GROWTH_KWARGS, EOS_JWL_KWARGS, MAT_JC_KWARGS,
      MAT_HE_BURN_KWARGS>>

\* Importing kunit.models raises TypeError when a SPEC construction passes a
\* keyword argument that KeywordSpec does not declare.
ModelsImportRaises ==
    \E i \in 1..Len(ModelsImports) : ~(ModelsImports[i] \subseteq KeywordSpecFields)

ALL_SPECS == <<MAT_JC, EOS_GRUNEISEN, EOS_IGNITION_GROWTH, EOS_JWL, MAT_HE_BURN>>

SPECS_BY_NAME == [n \in {ALL_SPECS[i].name : i \in 1..Len(ALL_SPECS)} |->
                     ALL_SPECS[CHOOSE i \in 1..Len(ALL_SPECS) : ALL_SPECS[i].name = n]]

(***************************************************************************)
(* kunit/api.py                                                            *)
(*                                                                         *)
(* A value decoded from JSON/TOML is tagged: JNull, JBool(b), JInt(n),     *)
(* JFloat(x), JStr(s), JList(seq of values), JMap(seq of <<key, value>>    *)
(* pairs in the mapping's iteration order, the keys distinct).  A result   *)
(* that may raise is [raised |-> "" or the exception's type, v |-> value]. *)
(***************************************************************************)
JNull == [t |-> "null", v |-> None]

JBool(b) == [t |-> "bool", v |-> b]

JInt(n) == [t |-> "int", v |-> n]

JFloat(x) == [t |-> "float", v |-> x]

JStr(str) == [t |-> "str", v |-> str]

JList(vs) == [t |-> "list", v |-> vs]

JMap(pairs) == [t |-> "map", v |-> pairs]

Ok(v) == [raised |-> "", v |-> v]

Raise(type) == [raised |-> type, v |-> None]

JHas(pairs, k) == \E i \in 1..Len(pairs) : pairs[i][1] = k

\* cfg.get(k): the value at k, None (JNull) when k is absent.
JGet(pairs, k) ==
    IF JHas(pairs, k) THEN pairs[CHOOSE i \in 1..Len(pairs) : pairs[i][1] = k][2]
    ELSE JNull

\* The integer part of a decimal, towards zero.
Trunc(x) ==
    IF x.e >= 0 THEN x.m * Pow10(x.e)
    ELSE (IF x.m < 0 THEN -1 ELSE 1) * (Abs(x.m) \div Pow10(0 - x.e))

\* float(j)
ToFloat(j) ==
    CASE j.t = "int" -> Ok(Dec(j.v, 0))
      [] j.t = "float" -> Ok(j.v)
      [] j.t = "bool" -> Ok(IF j.v THEN One ELSE Dec(0, 0))
      [] j.t = "str" -> IF is_number(Chars(j.v)) THEN Ok(Float(Chars(j.v)))
                        ELSE Raise("ValueError")
      [] OTHER -> Raise("TypeError")

\* int(c) for the characters c: an optionally signed run of digits, stripped.
IntOfStr(c) ==
    IF Unsigned(c) # <<>> /\ IsDigits(Unsigned(c))
    THEN Ok(Signed(IsNeg(c), DigitsVal(Unsigned(c)))) ELSE Raise("ValueError")

\* int(j): a float is truncated, a string must be an optionally signed run of digits.
ToInt(j) ==
    CASE j.t = "int" -> Ok(j.v)
      [] j.t = "float" -> Ok(Trunc(j.v))
      [] j.t = "bool" -> Ok(IF j.v THEN 1 ELSE 0)
      [] j.t = "str" -> IntOfStr(Strip(Chars(j.v)))
      [] OTHER -> Raise("TypeError")

_parse_dim(value) ==
    LET Ints(ints) ==
            IF \E i \in 1..3 : ints[i].raised # "" THEN Raise("ValueError")
            ELSE Ok(<<ints[1].v, ints[2].v, ints[3].v>>)
    IN  IF value.t # "list" \/ Len(value.v) # 3 THEN Raise("ValueError")
        ELSE Ints([i \in 1..3 |-> ToInt(value.v[i])])

\* float(cfg.get(k, default))
FloatOr(cfg, k, default) == IF JHas(cfg, k) THEN ToFloat(JGet(cfg, k)) ELSE Ok(default)

\* Ok(Some(v)) for a result Ok(v), the result itself where it raises.
OkSome(r) == IF r.raised # "" THEN r ELSE Ok(Some(r.v))

\* _parse_dim(cfg.get(k)) if the value is not None else None
DimOrNone(cfg, k) ==
    LET Got(j) == IF j.t = "null" THEN Ok(None) ELSE OkSome(_parse_dim(j))
    IN  Got(JGet(cfg, k))

\* float(cfg.get(k)) if the value is not None else None
FloatOrNone(cfg, k) ==
    LET Got(j) == IF j.t = "null" THEN Ok(None) ELSE OkSome(ToFloat(j))
    IN  Got(JGet(cfg, k))

\* cfg.get(k), which must be a string when it is not None
StrOrNone(cfg, k) ==
    LET Got(j) ==
            IF j.t = "null" THEN Ok(None)
            ELSE IF j.t # "str" THEN Raise("ValueError")
            ELSE Ok(Some(j.v))
    IN  Got(JGet(cfg, k))

\* The first of the results rs, in order, that raises; Ok(None) when none does.
RECURSIVE FirstRaise(_)
FirstRaise(rs) ==
    IF rs = <<>> THEN Ok(None)
    ELSE IF Head(rs).raised # "" THEN Head(rs)
    ELSE FirstRaise(Tail(rs))

\* The body of the inner loop of parse_custom_transforms: one field's transform.
ParseFieldTransform(cfg) ==
    LET Checked(bad, power, multiplier, offset, dim, scale_dim, scale_dim_field,
                scale_power_field, scale_power) ==
            IF bad.raised # "" THEN bad
            ELSE Ok(FieldTransform(power.v, multiplier.v, offset.v, dim.v, scale_dim.v,
                                   scale_dim_field.v, scale_power_field.v, scale_power.v))
        Parsed(power, multiplier, offset, dim, scale_dim, scale_dim_field,
               scale_power_field, scale_power) ==
            Checked(FirstRaise(<<power, multiplier, offset, dim, scale_dim, scale_dim_field,
                                 scale_power_field, scale_power>>),
                    power, multiplier, offset, dim, scale_dim, scale_dim_field,
                    scale_power_field, scale_power)
    IN  IF cfg.t # "map" THEN Raise("ValueError")
        ELSE Parsed(FloatOr(cfg.v, "power", One), FloatOr(cfg.v, "multiplier", One),
                    FloatOr(cfg.v, "offset", Dec(0, 0)), DimOrNone(cfg.v, "dim"),
                    DimOrNone(cfg.v, "scale_dim"), StrOrNone(cfg.v, "scale_dim_field"),
                    StrOrNone(cfg.v, "scale_power_field"), FloatOrNone(cfg.v, "scale_power"))

\* The dict built from the <<key, Ok(value)>> pairs, a later key replacing an
\* earlier equal one.
DictOfPairs(pairs) ==
    [k \in {pairs[i][1] : i \in 1..Len(pairs)} |->
        pairs[CHOOSE i \in 1..Len(pairs) :
                 /\ pairs[i][1] = k
                 /\ \A j \in (i + 1)..Len(pairs) : pairs[j][1] # k][2].v]

\* The dict of the keys of pairs and the results rs, the first raise of rs
\* where one raises.
DictOrRaise(pairs, rs) ==
    LET Checked(bad) ==
            IF bad.raised # "" THEN bad
            ELSE Ok(DictOfPairs([i \in 1..Len(pairs) |-> <<pairs[i][1], rs[i]>>]))
    IN  Checked(FirstRaise(rs))

\* The loop over one spec's fields.
ParseFields(fields) ==
    IF fields.t # "map" THEN Raise("ValueError")
    ELSE DictOrRaise(fields.v, [i \in 1..Len(fields.v) |-> ParseFieldTransform(fields.v[i][2])])

\* raw is the sequence of <<spec name, fields>> pairs of the mapping.
parse_custom_transforms(raw) ==
    DictOrRaise(raw, [i \in 1..Len(raw) |-> ParseFields(raw[i][2])])

\* custom_transforms is None or Some(a decoded value); a JSON string is taken
\* as already decoded.
_normalize_custom_transforms(custom_transforms) ==
    IF custom_transforms = None THEN Ok(None)
    ELSE IF custom_transforms[1].t # "map" THEN Raise("ValueError")
    ELSE OkSome(parse_custom_transforms(custom_transforms[1].v))

get_unit_keys == DOMAIN BASE_SYSTEMS

list_models == [i \in 1..Len(ALL_SPECS) |-> ALL_SPECS[i].name]

\* s.split(","), the pieces stripped and the empty ones dropped.
RECURSIVE SplitComma(_, _)
SplitComma(s, cur) ==
    IF s = <<>> THEN (IF Strip(cur) = <<>> THEN <<>> ELSE <<Strip(cur)>>)
    ELSE IF Head(s) = ","
         THEN (IF Strip(cur) = <<>> THEN <<>> ELSE <<Strip(cur)>>) \o SplitComma(Tail(s), <<>>)
    ELSE SplitComma(Tail(s), Append(cur, Head(s)))

\* The registered name spelled by the characters m, if any.
KnownName(m) == {n \in DOMAIN SPECS_BY_NAME : Chars(n) = m}

\* models is [str |-> characters] or [list |-> sequence of names as characters].
_resolve_specs(models) ==
    IF "str" \in DOMAIN models /\ Lower(Strip(models.str)) = Chars("all")
    THEN Ok(ALL_SPECS)
    ELSE LET names == IF "str" \in DOMAIN models THEN SplitComma(models.str, <<>>)
                      ELSE models.list
             unknown == \E i \in 1..Len(names) : KnownName(names[i]) = {}
         IN  IF unknown THEN Raise("ValueError")
             ELSE Ok([i \in 1..Len(names) |->
                         SPECS_BY_NAME[CHOOSE n \in KnownName(names[i]) : TRUE]])

\* The names _resolve_specs looks up: the stripped pieces of a string, or the list.
ModelNames(models) ==
    IF "str" \in DOMAIN models THEN SplitComma(models.str, <<>>) ELSE models.list

\* ValueError(f"Unknown models: {unknown}. Known: {known}")
UnknownModelsError(models) ==
    LET Unknown(m) == KnownName(m) = {}
    IN  [type |-> "ValueError", text |-> "Unknown models",
         names |-> SelectSeq(ModelNames(models), Unknown), known |-> DOMAIN SPECS_BY_NAME]

\* ValueError(f"Unknown unit key '{e.args[0]}'. Known: {get_unit_keys()}"): the
\* key is src when BASE_SYSTEMS[src] raised the KeyError, dst otherwise.
UnknownUnitKeyError(src, dst) ==
    [type |-> "ValueError", text |-> "Unknown unit key",
     names |-> <<IF src \notin DOMAIN BASE_SYSTEMS THEN src ELSE dst>>,
     known |-> get_unit_keys]

\* The TypeError of the first SPEC construction that passes a keyword
\* argument KeywordSpec does not declare.
ImportTypeError ==
    [type |-> "TypeError", text |-> "KeywordSpec.__init__() got an unexpected keyword argument",
     names |-> <<CHOOSE k \in UNION {ModelsImports[i] \ KeywordSpecFields :
                                        i \in 1..Len(ModelsImports)} : TRUE>>,
     known |-> {}]

\* What a caller of the api gets: the exception type raised ("" for none),
\* the text returned, the error, and whether engine.convert_text was called.
Failed(error) == [raised |-> error.type, out |-> None, error |-> Some(error), invoked |-> FALSE]

\* The result of the engine's convert_text as the api hands it on.
Converted(r) ==
    IF r.raised THEN [raised |-> "ValueError", out |-> None, error |-> r.error, invoked |-> TRUE]
    ELSE [raised |-> "", out |-> r.out, error |-> None, invoked |-> TRUE]

\* The error of a custom_transforms argument that did not parse.
TransformsError(type) == [type |-> type, text |-> "custom_transforms", names |-> <<>>, known |-> {}]

\* The body of convert_string, once kunit.api has been imported.
ConvertStringBody(text, src, dst, models, custom_transforms) ==
    LET Resolved(specs, transforms) ==
            IF specs.raised # "" THEN Failed(UnknownModelsError(models))
            ELSE IF transforms.raised # "" THEN Failed(TransformsError(transforms.raised))
            ELSE Converted(convert_text(text, specs.v, BASE_SYSTEMS[src], BASE_SYSTEMS[dst],
                                        transforms.v))
    IN  IF src \notin DOMAIN BASE_SYSTEMS \/ dst \notin DOMAIN BASE_SYSTEMS
        THEN Failed(UnknownUnitKeyError(src, dst))
        ELSE Resolved(_resolve_specs(models), _normalize_custom_transforms(custom_transforms))

\* A call of kunit.api.convert_string by a caller that imports it first:
\* "from .models import ALL_SPECS, SPECS_BY_NAME" runs before any body does.
convert_string(text, src, dst, models, custom_transforms) ==
    IF ModelsImportRaises THEN Failed(ImportTypeError)
    ELSE ConvertStringBody(text, src, dst, models, custom_transforms)

\* KunitConverter.__init__: the object it builds, or the error it raises.
KunitConverterInit(src, dst, models, custom_transforms) ==
    LET Resolved(specs, transforms) ==
            IF specs.raised # ""
            THEN [raised |-> specs.raised, error |-> Some(UnknownModelsError(models)),
                  self |-> None]
            ELSE IF transforms.raised # ""
            THEN [raised |-> transforms.raised,
                  error |-> Some(TransformsError(transforms.raised)), self |-> None]
            ELSE [raised |-> "", error |-> None,
                  self |-> Some([_src_u |-> BASE_SYSTEMS[src], _dst_u |-> BASE_SYSTEMS[dst],
                                 _specs |-> specs.v, _transforms |-> transforms.v])]
    IN  IF src \notin DOMAIN BASE_SYSTEMS \/ dst \notin DOMAIN BASE_SYSTEMS
        THEN [raised |-> "ValueError", error |-> Some(UnknownUnitKeyError(src, dst)),
              self |-> None]
        ELSE Resolved(_resolve_specs(models), _normalize_custom_transforms(custom_transforms))

\* KunitConverter.convert_text
KunitConverterConvertText(self, text) ==
    convert_text(text, self._specs, self._src_u, self._dst_u, self._transforms)

\* KunitConverter(src, dst, models, custom_transforms) by a caller that
\* imports kunit.api first.
KunitConverter(src, dst, models, custom_transforms) ==
    IF ModelsImportRaises
    THEN [raised |-> "TypeError", error |-> Some(ImportTypeError), self |-> None]
    ELSE KunitConverterInit(src, dst, models, custom_transforms)

\* KunitConverter(...).convert_text(text)
ConverterRun(made, text) ==
    IF made.raised # ""
    THEN [raised |-> made.raised, out |-> None, error |-> made.error, invoked |-> FALSE]
    ELSE Converted(KunitConverterConvertText(made.self[1], text))

\* list_models() by a caller that imports kunit.api first.
ListModels == IF ModelsImportRaises THEN Raise("TypeError") ELSE Ok(list_models)

(***************************************************************************)
(* kunit/materials_store.py                                                *)
(*                                                                         *)
(* A MaterialSection is [kind, model, units, payload]; a MaterialRecord is *)
(* [model, units, models, sections], the fields that export_materials and  *)
(* convert_materials read.  Model names are strings.                       *)
(***************************************************************************)
MaterialSection(kind, model, units, payload) ==
    [kind |-> kind, model |-> model, units |-> units, payload |-> payload]

MaterialRecord(model, units, models, sections) ==
    [model |-> model, units |-> units, models |-> models, sections |-> sections]

\* text if text.endswith("\n") else text + "\n"
WithNewline(text) ==
    IF text # <<>> /\ text[Len(text)] = "\n" THEN text ELSE text \o <<"\n">>

\* MaterialSection.to_k
MaterialSection_to_k(section) == WithNewline(section.payload)

\* MaterialRecord.to_k
MaterialRecord_to_k(material) ==
    Concat([i \in 1..Len(material.sections) |-> MaterialSection_to_k(material.sections[i])])

\* The names of the sections' models and of material.models, each at its
\* first place, that SPECS_BY_NAME knows, as specs.
_identifier_specs(material) ==
    LET names == [i \in 1..Len(material.sections) |-> material.sections[i].model]
                     \o material.models
        First(i) == /\ names[i] \in DOMAIN SPECS_BY_NAME
                    /\ \A j \in 1..(i - 1) : names[j] # names[i]
        Picked(at) ==
            [k \in 1..Cardinality(at) |->
                SPECS_BY_NAME[names[CHOOSE i \in at : Cardinality({j \in at : j <= i}) = k]]]
    IN  Picked({i \in 1..Len(names) : First(i)})

_identifier_fields(spec) ==
    {spec.cards[k][j] : k \in 1..Len(spec.cards), j \in 1..N_FIELDS} \cap {"mid", "eosid"}

\* One data line of _rewrite_block_identifier: the identifier fields set to
\* new_id, the other fields stripped.
RewriteIdentifierLine(card_fields, line, field_names, new_id) ==
    LET New(pairs) ==
            join_fixed([j \in 1..Len(pairs) |->
                           IF pairs[j].name \in field_names
                           THEN format_lsdyna_10(Dec(new_id, 0))
                           ELSE Strip(pairs[j].raw)])
    IN  New(ZipCard(card_fields, line))

_rewrite_block_identifier(block, spec, field_names, new_id) ==
    LET CardOf(data_idxs, i) ==
            CHOOSE k \in 1..SeqMin(Len(data_idxs), Len(spec.cards)) : data_idxs[k] = i
        Names(card_fields) == {card_fields[j] : j \in 1..Len(card_fields)}
        Rewritten(data_idxs) ==
            [i \in 1..Len(block) |->
                IF /\ \E k \in 1..SeqMin(Len(data_idxs), Len(spec.cards)) : data_idxs[k] = i
                   /\ field_names \cap Names(spec.cards[CardOf(data_idxs, i)]) # {}
                THEN RewriteIdentifierLine(spec.cards[CardOf(data_idxs, i)], block[i],
                                           field_names, new_id)
                ELSE block[i]]
        Extracted(data_idxs) == IF data_idxs = <<>> THEN block ELSE Rewritten(data_idxs)
    IN  Extracted(_extract_data_lines(block, Len(spec.cards)))

\* The while loop of _rewrite_identifier from index i on.
RECURSIVE RewriteIdentifierFrom(_, _, _, _, _, _)
RewriteIdentifierFrom(lines, i, out, spec, field_names, new_id) ==
    IF i > Len(lines) THEN out
    ELSE IF StartsWith(Upper(LStrip(lines[i])), Upper(spec.keyword_prefix))
         THEN RewriteIdentifierFrom(
                  lines, BlockEnd(lines, i + 1),
                  out \o _rewrite_block_identifier(SubSeq(lines, i, BlockEnd(lines, i + 1) - 1),
                                                   spec, field_names, new_id),
                  spec, field_names, new_id)
    ELSE RewriteIdentifierFrom(lines, i + 1, Append(out, lines[i]), spec, field_names, new_id)

_rewrite_identifier(payload, spec, field_names, new_id) ==
    WithNewline(Concat(RewriteIdentifierFrom(SplitLines(payload, <<>>), 1, <<>>, spec,
                                             field_names, new_id)))

\* The loop over _identifier_specs(material) of export_materials and
\* convert_materials.
RECURSIVE RewriteIdentifiers(_, _, _)
RewriteIdentifiers(text, specs, idx) ==
    IF specs = <<>> THEN text
    ELSE RewriteIdentifiers(IF _identifier_fields(Head(specs)) # {}
                            THEN _rewrite_identifier(text, Head(specs),
                                                     _identifier_fields(Head(specs)), idx)
                            ELSE text,
                            Tail(specs), idx)

\* The body of export_materials, once kunit.materials_store has been imported.
ExportMaterialsBody(materials) ==
    [raised |-> "", error |-> None, invoked |-> FALSE,
     out |-> Concat([idx \in 1..Len(materials) |->
                        RewriteIdentifiers(MaterialRecord_to_k(materials[idx]),
                                           _identifier_specs(materials[idx]), idx)])]

\* The convert_string call of convert_materials for one material.
ConvertMaterial(material, dst_units) ==
    ConvertStringBody(MaterialRecord_to_k(material), material.units, dst_units,
                      [list |-> IF material.models # <<>>
                                THEN [i \in 1..Len(material.models) |-> Chars(material.models[i])]
                                ELSE <<Chars(material.model)>>],
                      None)

\* The body of convert_materials: the first convert_string that raises ends it.
ConvertMaterialsBody(materials, dst_units) ==
    LET Raising == {idx \in 1..Len(materials) :
                       ConvertMaterial(materials[idx], dst_units).raised # ""}
    IN  IF Raising # {}
        THEN ConvertMaterial(materials[CHOOSE idx \in Raising : \A j \in Raising : idx <= j],
                             dst_units)
        ELSE [raised |-> "", error |-> None, invoked |-> TRUE,
              out |-> Concat([idx \in 1..Len(materials) |->
                                 RewriteIdentifiers(
                                     WithNewline(ConvertMaterial(materials[idx], dst_units).out),
                                     _identifier_specs(materials[idx]), idx)])]

\* kunit.materials_store imports kunit.api and kunit.models before it defines
\* anything: a caller gets the functions only if those imports succeed.
export_materials(materials) ==
    IF ModelsImportRaises THEN Failed(ImportTypeError) ELSE ExportMaterialsBody(materials)

convert_materials(materials, dst_units) ==
    IF ModelsImportRaises THEN Failed(ImportTypeError)
    ELSE ConvertMaterialsBody(materials, dst_units)

(***************************************************************************)
(* The inputs the calls are drawn from.                                    *)
(***************************************************************************)
MaxExp == 2

DimExps == (0 - MaxExp - 1)..MaxExp

Dims == {<<a, b, c>> : a \in DimExps, b \in DimExps, c \in DimExps}

Pressure == <<1, -1, -2>>

PerTime == <<0, 0, -1>>

\* The dims map of the field calls: "a" is a pressure, "t" a rate, the entry
\* of "b" is None, and "x" and "z" have no entry.
FieldDims == "a" :> Some(Pressure) @@ "b" :> None @@ "t" :> Some(PerTime)

FieldNames == {"a", "b", "x"}

\* Raw 10-character fields: two numbers, a six-digit number whose scaled
\* value does not fit the field, text, and a blank field.
FieldTokens ==
    {Chars("       2.5"), Chars("-4e2      "), Chars("   1.23456"), Chars("   steel  "),
     Chars("          ")}

\* The record contexts: "e" is a field of the block or is not; "q" never is.
Contexts == {EmptyDict, "e" :> Dec(3, 0)}

FieldTransforms ==
    {FieldTransform(One, One, Dec(0, 0), d, sd, sdf, spf, sp) :
        d \in {None, Some(PerTime)},
        sd \in {None, Some(Pressure)},
        sdf \in {None, Some("a"), Some("b"), Some("z")},
        spf \in {None, Some("e"), Some("q")},
        sp \in {None, Some(Dec(2, 0))}}

OptTransforms == {None} \cup {Some(t) : t \in FieldTransforms}

\* Transforms that change the value after scaling: a square times three, the
\* same under custom scaling, and half the value plus one for a rate.
PostTransforms ==
    {FieldTransform(Dec(2, 0), Dec(3, 0), Dec(0, 0), None, None, None, None, None),
     FieldTransform(Dec(2, 0), Dec(3, 0), Dec(0, 0), None, Some(Pressure), None, None,
                    Some(Dec(2, 0))),
     FieldTransform(One, Dec(5, -1), One, Some(PerTime), None, None, None, None)}

PostTokens == {Chars("       2.5"), Chars("-4e2      "), Chars("   steel  ")}

\* The token and transform of a field call.
FieldCases ==
    {[raw |-> raw, transform |-> t] : raw \in FieldTokens, t \in OptTransforms}
        \cup {[raw |-> raw, transform |-> Some(t)] : raw \in PostTokens, t \in PostTransforms}

\* A data line as a writer of the format lays it out: every field
\* right-justified in its 10 columns, then a line break.
Row(fields) ==
    Concat([i \in 1..Len(fields) |-> Rjust(Chars(fields[i]), FIELD_WIDTH)]) \o <<"\n">>

\* A data line whose fields are left-justified and written with trailing
\* zeros, so that any rewriting of it changes its bytes.
LeftRow(fields) ==
    Concat([i \in 1..Len(fields) |-> Ljust(Chars(fields[i]), FIELD_WIDTH)]) \o <<"\n">>

\* A spec whose dims map has entries for the skip markers themselves.
ID_DIMS_SPEC ==
    KeywordSpec("id-dims", Chars("*MAT_ID_DIMS"),
                <<<<"mid", "eosid", "_", "a", "es", "_", "_", "_">>>>,
                "mid" :> Some(Pressure) @@ "eosid" :> Some(Pressure) @@ "_" :> Some(Pressure)
                    @@ "a" :> Some(Pressure))

JwlRow == Row(<<"1", "3.7", "0.03", "4", "1", "0.35", "0.07", "1.0">>)

JwlTextRow == Row(<<"1", "3.7", "0.03", "4", "n/a", "0.35", "0.07", "1.0">>)

GruneisenRow1 == LeftRow(<<"1.50", "0.4", "1.5", "0", "0", "2.0", "0.5", "0">>)

GruneisenRow2 == LeftRow(<<"1.0", "7.0", "0", "", "", "", "", "">>)

IgnitionRows ==
    <<Row(<<"10", "5.242", "0.07678", "4.2", "1.1", "0.667", "3.4E-6", "780">>),
      Row(<<"-0.05031", "2.22E-5", "11.3", "1.13", "0.022", "4E6", "850", "2">>),
      Row(<<"0.667", "2", "1E-5", "2.49E-5", "7", "0", "0.085", "298">>),
      Row(<<"660", "1", "3", "3", "0.6", "0", "", "">>)>>

IgnitionKeyword == Chars("*EOS_IGNITION_AND_GROWTH_OF_REACTION_IN_HE\n")

\* The *EOS_JWLB block of tests/test_eos_jwlb.py.
JwlbRows ==
    <<Row(<<"4", "490.07", "56.868", "0.82426", "0.00093", "0.0", "", "">>),
      Row(<<"40.713", "9.6754", "2.435", "0.1556", "0.0", "", "", "">>),
      Row(<<"0.0", "11.468", "0.0", "0.0", "0.0", "", "", "">>),
      Row(<<"1098.0", "-6.5011", "0.0", "0.0", "0.0", "", "", "">>),
      Row(<<"15.614", "2.1593", "0.0", "0.0", "0.0", "", "", "">>),
      Row(<<"0.071", "0.30270", "0.06656", "0.613127", "", "", "", "">>)>>

\* The blocks handed to convert_block, each with the spec it is matched to:
\* complete blocks, blocks with title and comment lines, blocks with fewer
\* data lines than cards, and blocks whose skip fields hold numbers.
BlockCases ==
    {[spec |-> EOS_JWL, block |-> <<Chars("*EOS_JWL\n"), JwlRow>>],
     [spec |-> EOS_JWL, block |-> <<Chars("*eos_jwl_title\n"), Chars("tnt charge\n"),
                                    Chars("$ eosid  a\n"), JwlTextRow, JwlRow>>],
     [spec |-> EOS_JWL, block |-> <<Chars("*EOS_JWL\n"), Chars("$ 1.0\n"), Chars("\n"),
                                    Chars("tnt charge\n")>>],
     [spec |-> EOS_GRUNEISEN, block |-> <<Chars("*EOS_GRUNEISEN\n"), GruneisenRow1,
                                          Chars("$\n"), GruneisenRow2, GruneisenRow1>>],
     [spec |-> EOS_GRUNEISEN, block |-> <<Chars("*EOS_GRUNEISEN\n"), GruneisenRow1,
                                          Chars("tnt charge\n")>>],
     [spec |-> EOS_IGNITION_GROWTH, block |-> <<IgnitionKeyword>> \o IgnitionRows],
     [spec |-> EOS_IGNITION_GROWTH, block |-> <<IgnitionKeyword>> \o SubSeq(IgnitionRows, 1, 3)],
     [spec |-> MAT_HE_BURN, block |-> <<Chars("*MAT_HIGH_EXPLOSIVE_BURN\n"),
          LeftRow(<<"7.0", "1.63", "0.693", "0.21", "0", "0", "0", "0">>)>>],
     [spec |-> EOS_JWLB, block |-> <<Chars("*EOS_JWLB\n")>> \o JwlbRows],
     [spec |-> EOS_GRUNEISEN, block |-> <<Chars("*EOS_GRUNEISEN\n"),
          Chars("         1       2.5\n"),
          SubSeq(GruneisenRow2, 1, 80) \o Chars("  9.99 tail")>>],
     [spec |-> EOS_JWL, block |-> <<Chars("*EOS_JWL_TITLE\n"), Chars("2024\n"),
                                    Chars("$ eosid  a\n"), JwlRow>>],
     [spec |-> ID_DIMS_SPEC, block |-> <<Chars("*MAT_ID_DIMS\n"),
          Row(<<"2e3", "1.50", "7.0", "2.5", "2", "0.0", "x1", "">>)>>]}

\* An ignition-and-growth block whose pressures a, fmxig and cvp hold whole
\* numbers, and a transform map whose exponents are read from them: grow1
\* (card 2) from cvp on a later card, grow2 (card 4) from a on an earlier
\* card, r2 from fmxig later on its own card, freq from fmxig earlier on it.
PowerRows ==
    <<Row(<<"10", "3", "0.07678", "4.2", "1.1", "0.667", "3.4E-6", "780">>),
      Row(<<"-0.05", "2.22E-5", "11.3", "1.13", "2", "4E6", "850", "2">>),
      Row(<<"0.667", "0.222", "4", "2.49E-5", "7", "0", "0.085", "298">>),
      Row(<<"660", "1", "0.333", "3", "0.6", "0", "", "">>)>>

ReadsPower(dim, field) ==
    FieldTransform(One, One, Dec(0, 0), dim, Some(Pressure), None, Some(field), None)

PowerMap ==
    Some("eos-ignition-growth" :>
            ("grow1" :> ReadsPower(Some(PerTime), "cvp")
             @@ "grow2" :> ReadsPower(Some(PerTime), "a")
             @@ "r2" :> ReadsPower(None, "fmxig")
             @@ "freq" :> ReadsPower(None, "fmxig")))

\* A transform that scales by the pressure factor squared.
PressureSquared ==
    FieldTransform(One, One, Dec(0, 0), None, Some(Pressure), None, None, Some(Dec(2, 0)))

\* The custom transform maps: none; one with entries for the skip markers of
\* every spec; one whose transforms read their exponent from a numeric field
\* ("r1"), from a field that may hold text ("r2") and from a field that is no
\* field of the spec ("nope"), and borrow the dimension of an unknown field.
CustomMaps ==
    {None,
     Some([n \in {"eos-jwl", "eos-gruneisen", "mat-he-burn", "id-dims"} |->
              "mid" :> PressureSquared @@ "eosid" :> PressureSquared
                  @@ "_" :> PressureSquared]),
     Some("eos-jwl" :>
              ("a" :> FieldTransform(One, One, Dec(0, 0), None, None, None, Some("r1"), None)
               @@ "b" :> FieldTransform(One, One, Dec(0, 0), None, None, None, Some("r2"),
                                        Some(Dec(2, 0)))
               @@ "e0" :> FieldTransform(One, One, Dec(0, 0), None, None, None, Some("nope"),
                                         None))
          @@ "eos-gruneisen" :>
              ("c" :> FieldTransform(One, One, Dec(0, 0), None, None, Some("nope"), None, None)))}

\* The *EOS_JWLB document of tests/test_eos_jwlb.py.
JwlbText == Concat(<<Chars("*EOS_JWLB\n")>> \o JwlbRows)

\* The documents handed to convert_string.
IgnitionText == Concat(<<IgnitionKeyword>> \o IgnitionRows)

Texts ==
    {IgnitionText,
     Concat(<<Chars("*EOS_JWL\n"), JwlRow, IgnitionKeyword>> \o IgnitionRows)}

\* The documents handed to convert_text: a comment line, a JWL block, a
\* Gruneisen block and a keyword no spec matches; and the two texts above.
GruneisenDocument ==
    Concat(<<Chars("$ deck\n"), Chars("*EOS_JWL\n"), JwlRow, Chars("*EOS_GRUNEISEN\n"),
             GruneisenRow1, GruneisenRow2, Chars("*END\n")>>)

Documents == Texts \cup {GruneisenDocument}

\* The spec lists handed to convert_text.
SpecLists == {ALL_SPECS, <<EOS_JWL>>, <<EOS_GRUNEISEN, EOS_JWL>>}

\* A document of keyword lines that follow one another, a keyword line in
\* lower case behind blanks, comment and blank lines inside a block, a
\* keyword no spec matches behind blanks, a _TITLE variant with a title of
\* digits, and a last block whose data line has no line break.
ScanDocument ==
    Concat(<<Chars("*EOS_JWL\n"), Chars("  *eos_jwl\n"), Chars("$ comment\n"), Chars("\n"),
             JwlRow, JwlRow, Chars("   *end\n"), Chars("*EOS_JWLB_TITLE\n"),
             Chars("2024\n"), JwlbRows[1], Chars("*EOS_JWL\n"), SubSeq(JwlRow, 1, 80)>>)

\* An *EOS_JWLB block whose first data line is the *EOS_JWL one.
OverlapDocument == Concat(<<Chars("*EOS_JWLB\n"), JwlRow>> \o SubSeq(JwlbRows, 2, 6))

\* A document without any keyword line.
PlainDocument == Concat(<<Chars("$ deck\n"), JwlRow, Chars("\n"), Chars("tnt charge")>>)

\* Spec lists in which the prefix of one spec starts the prefix of another,
\* in either order, and the empty list.
OverlapLists == {<<EOS_JWL, EOS_JWLB>>, <<EOS_JWLB, EOS_JWL>>, <<>>}

\* The documents and spec lists handed to convert_text together.
TextCases ==
    {[text |-> text, specs |-> specs] : text \in Documents, specs \in SpecLists}
        \cup {[text |-> text, specs |-> specs] :
                  text \in {ScanDocument, PlainDocument, OverlapDocument, GruneisenDocument},
                  specs \in OverlapLists \cup {<<EOS_JWL>>}}

ModelSelectors ==
    {[str |-> Chars("eos-ignition-growth")], [str |-> Chars("all")],
     [str |-> Chars("eos-jwlb")], [str |-> Chars("eos-jwl, nope")],
     [list |-> <<Chars("eos-jwl"), Chars("mat-null")>>]}

\* The documents handed to the api: the texts above and the *EOS_JWLB one.
ApiTexts == Texts \cup {JwlbText}

\* The unit keys a caller passes: the registered ones and one that is not.
KeyInputs == UnitKeys \cup {"kg-m-s"}

(***************************************************************************)
(* The calls.  A caller is idle, calls one function of the library with    *)
(* inputs drawn from the sets above, and holds what it returned (or that   *)
(* it raised) until it goes back to idle.                                  *)
(***************************************************************************)
\* The threads of one gunicorn worker process (src/gunicorn.conf.py).
MaxThreads == 2

Threads == 1..MaxThreads

\* The frame of a thread that is in no call.
IdleFrame ==
    [at |-> "idle", text |-> <<>>, src |-> "", dst |-> "", custom_transforms |-> None,
     lines |-> <<>>, i |-> 0, out |-> <<>>, block |-> <<>>, matched |-> None,
     data_idxs |-> <<>>, result |-> <<>>, error |-> None, interleaved |-> FALSE]

Init ==
    /\ pc = "idle"
    /\ call = "none"
    /\ args = <<>>
    /\ ret = <<>>
    /\ worker = [t \in Threads |-> IdleFrame]
    /\ heap = [BASE_SYSTEMS |-> BASE_SYSTEMS, specs |-> ALL_SPECS,
               custom_transforms |-> None, contexts |-> [t \in Threads |-> EmptyDict]]

ScaleFactorCall ==
    /\ pc = "idle"
    /\ \E s \in UnitKeys, d \in UnitKeys, dim \in Dims :
        /\ args' = [src |-> s, dst |-> d, dim |-> dim]
        /\ ret' = scale_factor(BASE_SYSTEMS[s], BASE_SYSTEMS[d], dim)
    /\ call' = "scale_factor"
    /\ pc' = "returned"
    /\ UNCHANGED <<worker, heap>>

ConvertFieldCall ==
    /\ pc = "idle"
    /\ \E n \in FieldNames, c \in FieldCases, s \in UnitKeys, d \in UnitKeys,
          ctx \in Contexts :
        /\ args' = [field_name |-> n, raw_field |-> c.raw, src |-> s, dst |-> d,
                    dims |-> FieldDims, transform |-> c.transform, context |-> ctx]
        /\ ret' = _convert_field(n, c.raw, BASE_SYSTEMS[s], BASE_SYSTEMS[d], FieldDims,
                                 c.transform, ctx)
    /\ call' = "_convert_field"
    /\ pc' = "returned"
    /\ UNCHANGED <<worker, heap>>

ScaleExponentCall ==
    /\ pc = "idle"
    /\ \E t \in FieldTransforms, ctx \in Contexts :
        /\ args' = [self |-> t, context |-> ctx]
        /\ ret' = scale_exponent(t, ctx)
    /\ call' = "scale_exponent"
    /\ pc' = "returned"
    /\ UNCHANGED <<worker, heap>>

\* The blocks handed to convert_block with their transform maps: every block
\* above with every map above, and the block of PowerRows with PowerMap.
BlockInputs ==
    {[spec |-> c.spec, block |-> c.block, custom |-> custom] :
        c \in BlockCases, custom \in CustomMaps}
        \cup {[spec |-> EOS_IGNITION_GROWTH, block |-> <<IgnitionKeyword>> \o PowerRows,
               custom |-> PowerMap]}

ConvertBlockCall ==
    /\ pc = "idle"
    /\ \E c \in BlockInputs, s \in UnitKeys, d \in UnitKeys :
        /\ args' = [block |-> c.block, spec |-> c.spec, src |-> s, dst |-> d,
                    custom_transforms |-> c.custom]
        /\ ret' = convert_block(c.block, c.spec, BASE_SYSTEMS[s], BASE_SYSTEMS[d], c.custom)
    /\ call' = "convert_block"
    /\ pc' = "returned"
    /\ UNCHANGED <<worker, heap>>

ConvertStringCall ==
    /\ pc = "idle"
    /\ \E text \in ApiTexts, s \in KeyInputs, d \in KeyInputs, models \in ModelSelectors :
        /\ args' = [text |-> text, src |-> s, dst |-> d, models |-> models,
                    custom_transforms |-> None]
        /\ ret' = convert_string(text, s, d, models, None)
    /\ call' = "convert_string"
    /\ pc' = "returned"
    /\ UNCHANGED <<worker, heap>>

KunitConverterCall ==
    /\ pc = "idle"
    /\ \E text \in ApiTexts, s \in KeyInputs, d \in KeyInputs, models \in ModelSelectors :
        /\ args' = [text |-> text, src |-> s, dst |-> d, models |-> models,
                    custom_transforms |-> None]
        /\ ret' = ConverterRun(KunitConverter(s, d, models, None), text)
    /\ call' = "KunitConverter"
    /\ pc' = "returned"
    /\ UNCHANGED <<worker, heap>>

ListModelsCall ==
    /\ pc = "idle"
    /\ args' = <<>>
    /\ ret' = ListModels
    /\ call' = "list_models"
    /\ pc' = "returned"
    /\ UNCHANGED <<worker, heap>>

ConvertTextCall ==
    /\ pc = "idle"
    /\ \E c \in TextCases, s \in UnitKeys, d \in UnitKeys, custom \in CustomMaps :
        /\ args' = [text |-> c.text, specs |-> c.specs, src |-> s, dst |-> d,
                    custom_transforms |-> custom]
        /\ ret' = convert_text(c.text, c.specs, BASE_SYSTEMS[s], BASE_SYSTEMS[d], custom)
    /\ call' = "convert_text"
    /\ pc' = "returned"
    /\ UNCHANGED <<worker, heap>>

\* A caller converts one field from a to b, converts the text it got from b
\* to c, and converts the same field from a to c directly.
\* A line that runs past column 80: the *EOS_JWL data line and a tail.
LongLine == SubSeq(JwlRow, 1, FIELD_WIDTH * N_FIELDS) \o Chars("overflow 12345")

\* The lines handed to split_fixed: every prefix of LongLine (empty, shorter
\* than 80 columns, exactly 80, longer), each with and without a trailing
\* newline, and lines with a carriage return, a tab and two newlines.
FixedLines ==
    {SubSeq(LongLine, 1, n) : n \in 0..Len(LongLine)}
        \cup {SubSeq(LongLine, 1, n) \o <<"\n">> : n \in 0..Len(LongLine)}
        \cup {Chars("*EOS_JWL\r\n"), Chars("\t1.0\t2.0\n"), Chars("title\n\n")}

\* Field values: blank, padded, exactly 10 characters, 10 characters between
\* blanks, 12 characters, 12 characters between blanks, with an inner blank,
\* and between a tab and a newline.
JoinTokens ==
    <<Chars(""), Chars("   "), Chars("2.5"), Chars(" 1.0  "), Chars("1234567890"),
      Chars(" 1234567890 "), Chars("123456789012"), Chars("  -1.2345678E+05  "),
      Chars("a b"), Chars("\t7\n")>>

\* Lists of 8 fields: the tokens taken round with a stride.
EightFields(k, step) == [i \in 1..N_FIELDS |-> JoinTokens[((k + i * step) % Len(JoinTokens)) + 1]]

\* The field lists handed to join_fixed: the lists of at most two tokens,
\* lists of 8 fields, and a list of 9.
FieldLists ==
    {<<>>} \cup {<<JoinTokens[i]>> : i \in 1..Len(JoinTokens)}
        \cup {<<JoinTokens[i], JoinTokens[j]>> : i, j \in 1..Len(JoinTokens)}
        \cup {EightFields(k, step) : k \in 0..9, step \in 0..3}
        \cup {EightFields(k, 1) \o <<Chars("9th")>> : k \in 0..1}

\* The payloads of tests/test_materials_store.py: a *MAT_HIGH_EXPLOSIVE_BURN
\* block and an *EOS_JWL block, each a keyword line, a comment line and one
\* data line that starts with the identifier.
HeBurnPayload(mid) ==
    Concat(<<Chars("*MAT_HIGH_EXPLOSIVE_BURN\n"),
             Chars("$#     mid        ro         d       pcj      beta         k         g      sigy\n"),
             Row(<<mid, "1.2", "2.0", "3.0", "0.0", "0.0", "0.0", "4.0">>)>>)

JwlPayload(eosid) ==
    Concat(<<Chars("*EOS_JWL\n"),
             Chars("$#   eosid         a         b        r1        r2      omeg        e0        vo\n"),
             Row(<<eosid, "10.0", "20.0", "1.0", "2.0", "3.0", "60.0", "0.5">>)>>)

\* A material of two sections, as MaterialStore normalises it.
TwoSections(mid, eosid) ==
    MaterialRecord("mat-he-burn", "mm-mg-us", <<"mat-he-burn", "eos-jwl">>,
                   <<MaterialSection("material", "mat-he-burn", "mm-mg-us", HeBurnPayload(mid)),
                     MaterialSection("eos", "eos-jwl", "mm-mg-us", JwlPayload(eosid))>>)

\* A material of one section whose text holds both blocks and ends without
\* a line break.
OneSection(mid, eosid) ==
    MaterialRecord("mat-he-burn", "mm-mg-us", <<"mat-he-burn", "eos-jwl">>,
                   <<MaterialSection("material", "mat-he-burn", "mm-mg-us",
                                     SubSeq(HeBurnPayload(mid) \o JwlPayload(eosid), 1,
                                            Len(HeBurnPayload(mid) \o JwlPayload(eosid)) - 1))>>)

MaterialInputs == {TwoSections("7", "42"), TwoSections("99", "5"), OneSection("22", "23")}

\* The sequences of materials handed to export_materials and
\* convert_materials: of one, two and three materials, one material twice.
MaterialLists ==
    {<<a>> : a \in MaterialInputs}
        \cup {<<a, b>> : a, b \in MaterialInputs}
        \cup {<<a, b, c>> : a, b, c \in MaterialInputs}

ExportMaterialsCall ==
    /\ pc = "idle"
    /\ \E materials \in MaterialLists :
        /\ args' = [materials |-> materials]
        /\ ret' = export_materials(materials)
    /\ call' = "export_materials"
    /\ pc' = "returned"
    /\ UNCHANGED <<worker, heap>>

ConvertMaterialsCall ==
    /\ pc = "idle"
    /\ \E materials \in MaterialLists, d \in UnitKeys :
        /\ args' = [materials |-> materials, dst_units |-> d]
        /\ ret' = convert_materials(materials, d)
    /\ call' = "convert_materials"
    /\ pc' = "returned"
    /\ UNCHANGED <<worker, heap>>

\* The lines handed to _is_data_line: empty and blank lines, keyword and
\* comment lines at the margin and behind blanks, data lines, a line whose
\* first field is blank, titles of words and of digits, and lines whose
\* number ends inside or runs past the first 10 columns.
DataLineInputs ==
    {Chars(""), Chars("\n"), Chars("   \n"), Chars("*EOS_JWL\n"), Chars("  *end\n"),
     Chars("$ comment\n"), Chars("  $ 1.0\n"), Chars("   * 1.0\n"), JwlRow, GruneisenRow1,
     Chars("          1.0\n"), Chars("tnt charge\n"), Chars("2024\n"), Chars("2024 alloy\n"),
     Chars(" -1.5e3"), Chars("1234567890123\n"), Chars("1.0       steel\n"),
     Chars("1 $ 2\n"), Chars("\t7\n"), Chars("1.0*\n"), Chars("e3\n"), Chars(".\n")}

IsDataLineCall ==
    /\ pc = "idle"
    /\ \E line \in DataLineInputs :
        /\ args' = [line |-> line]
        /\ ret' = [value |-> _is_data_line(line)]
    /\ call' = "_is_data_line"
    /\ pc' = "returned"
    /\ UNCHANGED <<worker, heap>>

SplitFixedCall ==
    /\ pc = "idle"
    /\ \E line \in FixedLines :
        /\ args' = [line |-> line]
        /\ ret' = split_fixed(line)
    /\ call' = "split_fixed"
    /\ pc' = "returned"
    /\ UNCHANGED <<worker, heap>>

JoinFixedCall ==
    /\ pc = "idle"
    /\ \E fields \in FieldLists :
        /\ args' = [fields |-> fields]
        /\ ret' = join_fixed(fields)
    /\ call' = "join_fixed"
    /\ pc' = "returned"
    /\ UNCHANGED <<worker, heap>>

\* split_fixed(join_fixed(fields))
SplitJoinCall ==
    /\ pc = "idle"
    /\ \E fields \in FieldLists :
        /\ args' = [fields |-> fields]
        /\ ret' = [line |-> join_fixed(fields), fields |-> split_fixed(join_fixed(fields))]
    /\ call' = "split_join"
    /\ pc' = "returned"
    /\ UNCHANGED <<worker, heap>>

\* join_fixed(split_fixed(line)), once and a second time on its own result.
JoinSplitCall ==
    /\ pc = "idle"
    /\ \E line \in FixedLines :
        /\ args' = [line |-> line]
        /\ ret' = [once |-> join_fixed(split_fixed(line)),
                   twice |-> join_fixed(split_fixed(join_fixed(split_fixed(line))))]
    /\ call' = "join_split"
    /\ pc' = "returned"
    /\ UNCHANGED <<worker, heap>>

\* The values handed to format_lsdyna_10: zero, and numbers of 1 to 10
\* significant digits (and of nines, which round up to a power of ten) of
\* either sign, from 10^-120 to 10^100.
FormatMantissas ==
    {1, 17, 173, 1738, 17384, 173849, 1738496, 17384962, 173849627, 1738496272,
     99999, 999999999}

FormatExponents == {-120, -100, -30, -12, -8, -5, -4, -3, -1, 0, 1, 3, 5, 8, 30, 100}

FormatValues ==
    {Dec(0, 0)} \cup {Dec(sign * m, e) : sign \in {1, -1}, m \in FormatMantissas,
                                          e \in FormatExponents}

FormatCall ==
    /\ pc = "idle"
    /\ \E v \in FormatValues :
        /\ args' = [v |-> v]
        /\ ret' = format_lsdyna_10(v)
    /\ call' = "format_lsdyna_10"
    /\ pc' = "returned"
    /\ UNCHANGED <<worker, heap>>

\* The values a "dim" or "scale_dim" key is given: three integers, two
\* integers, a string, a float among the integers, a digit string among them,
\* a word among them, and null.
DimValues ==
    {JList(<<JInt(1), JInt(-1), JInt(-2)>>), JList(<<JInt(1), JInt(-1)>>),
     JStr("1,-1,-2"), JList(<<JFloat(Dec(15, -1)), JInt(-1), JInt(-2)>>),
     JList(<<JStr("1"), JInt(-1), JInt(-2)>>), JList(<<JStr("x"), JInt(-1), JInt(-2)>>),
     JNull}

\* The values a "scale_dim_field" or "scale_power_field" key is given.
NameValues == {JStr("rho"), JInt(3), JNull}

\* The values a "power" key is given.
PowerValues == {JInt(2), JStr("0.5")}

\* One key with each of its values, and the key left out.
Entry(keys, values) == {<<>>} \cup {<<<<k, v>>>> : k \in keys, v \in values}

\* The field configurations: mappings of a dimension key, a name key and
\* "power", each given or left out; and two values that are no mapping.
Configs ==
    {JMap(d \o n \o q) : d \in Entry({"dim", "scale_dim"}, DimValues),
                          n \in Entry({"scale_dim_field", "scale_power_field"}, NameValues),
                          q \in Entry({"power"}, PowerValues)}
        \cup {JList(<<JInt(1)>>), JStr("dim")}

\* The mappings handed to parse_custom_transforms: one spec with one field of
\* each configuration, a spec whose entry is no mapping, two specs, and
\* the empty mapping.
RawTransforms ==
    {<<<<"eos-jwl", JMap(<<<<"a", cfg>>>>)>>>> : cfg \in Configs}
        \cup {<<<<"eos-jwl", JList(<<>>)>>>>, <<>>,
              <<<<"eos-jwl", JMap(<<<<"a", JMap(<<>>)>>, <<"b", JStr("dim")>>>>)>>>>,
              <<<<"eos-jwl", JMap(<<<<"a", JMap(<<>>)>>>>)>>, <<"mat-jc", JInt(0)>>>>}

\* parse_custom_transforms(raw) for a decoded mapping raw.
ParseCustomTransformsCall ==
    /\ pc = "idle"
    /\ \E raw \in RawTransforms :
        /\ args' = [raw |-> raw]
        /\ ret' = parse_custom_transforms(raw)
    /\ call' = "parse_custom_transforms"
    /\ pc' = "returned"
    /\ UNCHANGED <<worker, heap>>

ConvertFieldTwiceCall ==
    /\ pc = "idle"
    /\ \E n \in DOMAIN FieldDims \cup FieldNames, raw \in FieldTokens,
          a \in UnitKeys, b \in UnitKeys, c \in UnitKeys :
        /\ args' = [field_name |-> n, raw_field |-> raw, a |-> a, b |-> b, c |-> c,
                    dims |-> FieldDims]
        /\ ret' = [ab |-> _convert_field(n, raw, BASE_SYSTEMS[a], BASE_SYSTEMS[b],
                                         FieldDims, None, EmptyDict),
                   bc |-> _convert_field(n, _convert_field(n, raw, BASE_SYSTEMS[a],
                                                           BASE_SYSTEMS[b], FieldDims,
                                                           None, EmptyDict).out,
                                         BASE_SYSTEMS[b], BASE_SYSTEMS[c], FieldDims,
                                         None, EmptyDict),
                   ac |-> _convert_field(n, raw, BASE_SYSTEMS[a], BASE_SYSTEMS[c],
                                         FieldDims, None, EmptyDict)]
    /\ call' = "convert_twice"
    /\ pc' = "returned"
    /\ UNCHANGED <<worker, heap>>

Return ==
    /\ pc = "returned"
    /\ pc' = "idle"
    /\ call' = "none"
    /\ args' = <<>>
    /\ ret' = <<>>
    /\ UNCHANGED <<worker, heap>>

Next ==
    \/ ScaleFactorCall
    \/ ConvertFieldCall
    \/ ScaleExponentCall
    \/ ConvertBlockCall
    \/ ConvertStringCall
    \/ ConvertFieldTwiceCall
    \/ ConvertTextCall
    \/ SplitFixedCall
    \/ JoinFixedCall
    \/ SplitJoinCall
    \/ JoinSplitCall
    \/ FormatCall
    \/ KunitConverterCall
    \/ ListModelsCall
    \/ ParseCustomTransformsCall
    \/ IsDataLineCall
    \/ ExportMaterialsCall
    \/ ConvertMaterialsCall
    \/ Return

Spec == Init /\ [][Next]_vars

(***************************************************************************)
(* Concurrent calls of convert_text.  gunicorn serves requests on threads  *)
(* of one process (src/gunicorn.conf.py: worker_class "gthread", threads), *)
(* so several calls of convert_text run interleaved over the same module   *)
(* objects.  heap holds the objects every call can reach: BASE_SYSTEMS,    *)
(* the spec list and the custom transform map that the callers pass, and   *)
(* the context dictionaries that calls of convert_block create.  worker[t] *)
(* holds the frame of thread t: its arguments and the local variables of   *)
(* convert_text and convert_block.  A thread runs from one read or write   *)
(* of a heap object to the next in one step.                               *)
(***************************************************************************)
\* The documents the threads convert: two JWL blocks whose r1 differ, and a
\* Gruneisen block.
ThreadTexts ==
    {Concat(<<Chars("*EOS_JWL\n"), JwlRow>>),
     Concat(<<Chars("*EOS_JWL\n"),
              Row(<<"1", "3.7", "0.03", "2", "1", "0.35", "0.07", "1.0">>)>>),
     Concat(<<Chars("*EOS_GRUNEISEN\n"), GruneisenRow1, GruneisenRow2>>)}

ThreadDsts == {"m-kg-s"}

\* The custom transform maps the callers share: none, and the one whose
\* transforms read exponents from the record context.
ThreadCustoms == {None} \cup {m \in CustomMaps : m # None /\ "id-dims" \notin DOMAIN m[1]}

\* A thread is inside a call of convert_text.
Running(t) == worker[t].at \in {"scan", "context", "rewrite"}

\* The frames after a step of thread t that leaves its frame as given: every
\* other thread that is inside a call has been interleaved with.
Stepped(t, frame) ==
    [u \in Threads |->
        IF u = t THEN frame
        ELSE IF Running(u) THEN [worker[u] EXCEPT !.interleaved = TRUE]
        ELSE worker[u]]

\* One dictionary for all calls: a context kept in a module-level variable.
ContextCellShared(t) == 1

\* "context: Dict[str, float] = {}" makes a dictionary of its own for every
\* call of convert_block: the one of the call that thread t is in.
ContextCell(t) == t

ThreadInit ==
    /\ pc = "idle"
    /\ call = "none"
    /\ args = <<>>
    /\ ret = <<>>
    /\ worker = [t \in Threads |-> IdleFrame]
    /\ \E custom \in ThreadCustoms :
          heap = [BASE_SYSTEMS |-> BASE_SYSTEMS, specs |-> ALL_SPECS,
                  custom_transforms |-> custom, contexts |-> [t \in Threads |-> EmptyDict]]

\* convert_text(text, specs, src, dst, custom_transforms=...) up to the while
\* loop, the spec list and the map being the shared ones.
ThreadCall(t) ==
    /\ worker[t].at = "idle"
    /\ \E text \in ThreadTexts, d \in ThreadDsts :
          worker' = Stepped(t, [IdleFrame EXCEPT !.at = "scan", !.text = text,
                                                 !.src = "mm-mg-us", !.dst = d,
                                                 !.custom_transforms = heap.custom_transforms,
                                                 !.lines = SplitLines(text, <<>>), !.i = 1])
    /\ UNCHANGED <<pc, call, args, ret, heap>>

\* One iteration of the while loop of convert_text up to the first loop of
\* convert_block, or the return of "".join(out).
ThreadScan(t) ==
    LET f == worker[t]
        Extracted(matched, j, block, data_idxs) ==
            IF Malformed(data_idxs, matched[1])
            THEN [f EXCEPT !.i = j, !.out = f.out \o block]
            ELSE [f EXCEPT !.i = j, !.at = "context", !.block = block, !.matched = matched,
                           !.data_idxs = data_idxs]
        Block(matched, j, block) ==
            Extracted(matched, j, block, _extract_data_lines(block, Len(matched[1].cards)))
        Collected(matched, j) == Block(matched, j, SubSeq(f.lines, f.i, j - 1))
        Matched(matched) ==
            IF matched = None
            THEN [f EXCEPT !.i = f.i + 1, !.out = Append(f.out, f.lines[f.i])]
            ELSE Collected(matched, BlockEnd(f.lines, f.i + 1))
    IN  /\ f.at = "scan"
        /\ worker' = Stepped(t, IF f.i > Len(f.lines)
                                THEN [f EXCEPT !.at = "done", !.result = Concat(f.out)]
                                ELSE Matched(FirstMatch(Upper(LStrip(f.lines[f.i])), heap.specs)))
        /\ UNCHANGED <<pc, call, args, ret, heap>>

\* The first loop of convert_block: the context of the call is filled.
ThreadContext(t) ==
    /\ worker[t].at = "context"
    /\ heap' = [heap EXCEPT !.contexts[ContextCell(t)] =
                    BuildContext(Concat(ZipBlock(worker[t].block, worker[t].data_idxs,
                                                 worker[t].matched[1].cards)), EmptyDict)]
    /\ worker' = Stepped(t, [worker[t] EXCEPT !.at = "rewrite"])
    /\ UNCHANGED <<pc, call, args, ret>>

\* The second loop of convert_block, which reads the context of the call, and
\* out.extend(...) in convert_text; a ValueError ends the call.  The context
\* goes with the call that made it.
ThreadRewrite(t) ==
    LET f == worker[t]
        Done(r) ==
            IF r.raised
            THEN [f EXCEPT !.at = "raised", !.error = r.error, !.block = <<>>,
                           !.matched = None, !.data_idxs = <<>>]
            ELSE [f EXCEPT !.at = "scan", !.out = f.out \o r.out, !.block = <<>>,
                           !.matched = None, !.data_idxs = <<>>]
    IN  /\ f.at = "rewrite"
        /\ worker' = Stepped(t, Done(SecondLoop(f.block, f.matched[1],
                                                heap.BASE_SYSTEMS[f.src],
                                                heap.BASE_SYSTEMS[f.dst],
                                                heap.custom_transforms, f.data_idxs,
                                                ZipBlock(f.block, f.data_idxs,
                                                         f.matched[1].cards),
                                                heap.contexts[ContextCell(t)])))
        /\ heap' = [heap EXCEPT !.contexts[ContextCell(t)] = EmptyDict]
        /\ UNCHANGED <<pc, call, args, ret>>

\* The caller has its text or its exception; the thread serves the next
\* request.
ThreadReturn(t) ==
    /\ worker[t].at \in {"done", "raised"}
    /\ worker' = Stepped(t, IdleFrame)
    /\ UNCHANGED <<pc, call, args, ret, heap>>

ThreadNext ==
    \E t \in Threads :
        \/ ThreadCall(t)
        \/ ThreadScan(t)
        \/ ThreadContext(t)
        \/ ThreadRewrite(t)
        \/ ThreadReturn(t)

ThreadSpec == ThreadInit /\ [][ThreadNext]_vars

(***************************************************************************)
(* Properties.  Each is stated on the call a caller has just got back:     *)
(* args are the inputs it passed and ret what the function returned.       *)
(***************************************************************************)
Returned(f) == pc = "returned" /\ call = f

\* The marker names as the specification lists them.
SkipMarkers == {"mid", "eosid", "_"}

\* The number of lines of the block that qualify as data lines.
DataLineCount(block) == Cardinality({i \in 1..Len(block) : _is_data_line(block[i])})

\* The token is blank or no number once stripped.
NonNumeric(raw) == ~FloatParse(Strip(raw)).ok

\* The power of ten an SI equivalent is (every registered one is a power of ten).
Log10(x) == IF x.m = 1 THEN x.e ELSE CHOOSE q \in {} : TRUE

\* 10^(a*dm + b*dl + c*dt): the ratio formula for two systems whose SI
\* equivalents are powers of ten.
RatioFormula(src, dst, dim) ==
    Dec(1, dim[1] * (Log10(src.mass_si) - Log10(dst.mass_si))
           + dim[2] * (Log10(src.length_si) - Log10(dst.length_si))
           + dim[3] * (Log10(src.time_si) - Log10(dst.time_si)))

\* The field's own resolved dimension: transform.dim if set, else dims[name].
OwnDim(a) ==
    IF a.transform # None /\ a.transform[1].dim # None THEN a.transform[1].dim
    ELSE IF a.field_name \in DOMAIN a.dims THEN a.dims[a.field_name]
    ELSE None

\* The transform declares custom scaling.
Custom(t) ==
    /\ t # None
    /\ \/ t[1].scale_dim # None
       \/ t[1].scale_dim_field # None
       \/ t[1].scale_power_field # None
       \/ t[1].scale_power # None

\* A _convert_field call that returned a converted number.
ConvertedNumber ==
    /\ Returned("_convert_field")
    /\ ~NonNumeric(args.raw_field)
    /\ ~ret.raised

\* C1 (malformed-block passthrough): whenever the block handed to
\* convert_block holds fewer qualifying data lines than the spec has cards,
\* convert_block raises nothing and returns the lines of the block exactly as
\* they came in, whatever the unit systems and the custom transform map.
C1_MalformedPassthrough ==
    (Returned("convert_block") /\ DataLineCount(args.block) < Len(args.spec.cards))
        => (~ret.raised /\ ret.out = args.block)

\* A block with one data line of the two its spec needs, written
\* left-justified, came back unchanged from a conversion between different
\* systems with a custom transform map.
C1_Witness ==
    /\ Returned("convert_block")
    /\ DataLineCount(args.block) > 0
    /\ DataLineCount(args.block) < Len(args.spec.cards)
    /\ args.src # args.dst
    /\ args.custom_transforms # None
    /\ args.spec.name \in DOMAIN args.custom_transforms[1]
    /\ ret.out = args.block

\* C2 (skip-marker invariance): in every data line convert_block rewrites, a
\* field whose card slot is named mid, eosid or _ is emitted as its stripped
\* raw text (right-justified by join_fixed and nothing else), even when dims
\* or the custom transform map has an entry for the name; and no such name
\* is a key of the record context.
C2_SkipMarkerInvariance ==
    (Returned("convert_block") /\ ret.rewritten) =>
        /\ DOMAIN ret.context \cap SkipMarkers = {}
        /\ \A k \in 1..Len(ret.fields) : \A j \in 1..Len(ret.fields[k]) :
              args.spec.cards[k][j] \in SkipMarkers =>
                  /\ ret.fields[k][j].out
                        = Strip(split_fixed(args.block[ret.data_idxs[k]])[j])
                  /\ split_fixed(ret.out[ret.data_idxs[k]])[j]
                        = Rjust(Strip(split_fixed(args.block[ret.data_idxs[k]])[j]),
                                FIELD_WIDTH)

\* A rewritten block whose eosid slot holds "1.50", with a dims entry and a
\* custom transform for eosid, converted between different systems: the slot
\* came out as "1.50" while the pressure field next to it was scaled.
C2_Witness ==
    /\ Returned("convert_block")
    /\ ret.rewritten
    /\ args.src # args.dst
    /\ args.spec.cards[1][2] = "eosid"
    /\ "eosid" \in DOMAIN args.spec.dims
    /\ args.spec.dims["eosid"] # None
    /\ args.custom_transforms # None
    /\ args.spec.name \in DOMAIN args.custom_transforms[1]
    /\ "eosid" \in DOMAIN args.custom_transforms[1][args.spec.name]
    /\ ret.fields[1][2].out = Chars("1.50")
    /\ ret.fields[1][4].numeric
    /\ ret.fields[1][4].out # ret.fields[1][4].s

\* C3 (non-numeric passthrough): for a token that is blank or not a number
\* once stripped, _convert_field raises nothing and returns the stripped
\* token.  The result is a function of the token alone, so two calls that
\* differ only in src, dst, dims, transform or context return the same text.
C3_NonNumericPassthrough ==
    (Returned("_convert_field") /\ NonNumeric(args.raw_field))
        => (~ret.raised /\ ret.out = Strip(args.raw_field))

\* A text token came back stripped from a call between different systems
\* whose transform names a scale_dim_field that dims does not have.
C3_Witness ==
    /\ Returned("_convert_field")
    /\ NonNumeric(args.raw_field)
    /\ Strip(args.raw_field) # <<>>
    /\ args.src # args.dst
    /\ args.transform # None
    /\ args.transform[1].scale_dim = None
    /\ args.transform[1].scale_dim_field # None
    /\ args.transform[1].scale_dim_field[1] \notin DOMAIN args.dims
    /\ ret.out = Strip(args.raw_field)

\* C4 (scale_factor): for every pair of registered systems and every exponent
\* triple (a, b, c), scale_factor is (src.mass/dst.mass)^a *
\* (src.length/dst.length)^b * (src.time/dst.time)^c; mm-mg-us is length 1e-3,
\* mass 1e-6, time 1e-6 and m-kg-s is 1, 1, 1; from mm-mg-us to m-kg-s a density
\* (1,-3,0) is multiplied by 1e3 and a pressure (1,-1,-2) by 1e9.
C4_ScaleFactorFormula ==
    /\ BASE_SYSTEMS["mm-mg-us"]
          = [length_si |-> Dec(1, -3), mass_si |-> Dec(1, -6), time_si |-> Dec(1, -6)]
    /\ BASE_SYSTEMS["m-kg-s"] = [length_si |-> One, mass_si |-> One, time_si |-> One]
    /\ Returned("scale_factor") =>
          /\ ret = RatioFormula(BASE_SYSTEMS[args.src], BASE_SYSTEMS[args.dst], args.dim)
          /\ (args.src = "mm-mg-us" /\ args.dst = "m-kg-s" /\ args.dim = <<1, -3, 0>>)
                => ret = Dec(1, 3)
          /\ (args.src = "mm-mg-us" /\ args.dst = "m-kg-s" /\ args.dim = <<1, -1, -2>>)
                => ret = Dec(1, 9)

\* scale_factor returned 1e9 for a pressure from mm-mg-us to m-kg-s.
C4_Witness ==
    /\ Returned("scale_factor")
    /\ args.src = "mm-mg-us"
    /\ args.dst = "m-kg-s"
    /\ args.dim = <<1, -1, -2>>
    /\ ret = Dec(1, 9)

\* C5 (identity conversion): with src = dst, scale_factor is 1 for every
\* dimension vector, and the value _convert_field hands to the formatter for
\* a numeric token is the raw value, under plain scaling and under custom
\* scaling with any exponent (power, multiplier and offset left alone).
C5_IdentityConversion ==
    /\ (Returned("scale_factor") /\ args.src = args.dst) => ret = One
    /\ (/\ ConvertedNumber
        /\ args.src = args.dst
        /\ \/ args.transform = None
           \/ /\ args.transform[1].power = One
              /\ args.transform[1].multiplier = One
              /\ args.transform[1].offset = Dec(0, 0))
          => ret.value = Some(FloatParse(Strip(args.raw_field)).val)

\* A number with a pressure dimension went through custom scaling with an
\* exponent read from the context, from mm-mg-us to mm-mg-us, and the value
\* formatted is the raw value.
C5_Witness ==
    /\ ConvertedNumber
    /\ args.src = "mm-mg-us"
    /\ args.dst = "mm-mg-us"
    /\ args.transform # None
    /\ args.transform[1].scale_dim # None
    /\ args.transform[1].scale_power_field # None
    /\ args.transform[1].scale_power_field[1] \in DOMAIN args.context
    /\ ret.exponent = Some(Dec(3, 0))
    /\ ret.value = Some(FloatParse(Strip(args.raw_field)).val)

\* The text _convert_field returned for a to b holds the b value exactly.
IntermediateExact == FloatParse(ret.ab.out).val = ret.ab.value[1]

OutputFields(text, i) == split_fixed(SplitLines(text, <<>>)[i])

\* grow' = grow * scale_factor(src,dst,(0,0,-1)) * scale_factor(src,dst,(1,-1,-2)) ** e
GrowthScaled(grow, e, src, dst) ==
    format_lsdyna_10(Mul(Mul(FloatParse(Strip(grow)).val,
                             scale_factor(BASE_SYSTEMS[src], BASE_SYSTEMS[dst], PerTime)),
                         PowDec(scale_factor(BASE_SYSTEMS[src], BASE_SYSTEMS[dst], Pressure),
                                FloatParse(Strip(e)).val)))

\* C7 (dynamic exponent of eos-ignition-growth): convert_string, called
\* without custom transforms on a document that is one
\* *EOS_IGNITION_AND_GROWTH_OF_REACTION_IN_HE block, returns a document in which
\* grow1 is grow1 * timeScale * pressureScale ** es1 and grow2 is
\* grow2 * timeScale * pressureScale ** es2, es1 and es2 read from the block.
C7_DynamicExponentIgnitionGrowth ==
    (Returned("convert_string") /\ args.text = IgnitionText
        /\ args.custom_transforms = None) =>
        /\ ret.raised = ""
        /\ Strip(OutputFields(ret.out, 3)[7])
              = GrowthScaled(OutputFields(args.text, 3)[7], OutputFields(args.text, 4)[2],
                             args.src, args.dst)
        /\ Strip(OutputFields(ret.out, 5)[1])
              = GrowthScaled(OutputFields(args.text, 5)[1], OutputFields(args.text, 5)[3],
                             args.src, args.dst)

\* The raw number of the call.
RawValue == FloatParse(Strip(args.raw_field)).val

\* scale_factor(src, dst, dim) for the systems of the call.
CallFactor(dim) == scale_factor(BASE_SYSTEMS[args.src], BASE_SYSTEMS[args.dst], dim)

SecondaryDim(a) ==
    IF a.transform[1].scale_dim # None THEN a.transform[1].scale_dim
    ELSE IF a.transform[1].scale_dim_field # None
         THEN a.dims[a.transform[1].scale_dim_field[1]]
    ELSE OwnDim(a)

\* C9 (secondary-dimension resolution order): under a custom-scaling
\* transform the dimension of the secondary scale factor is scale_dim if set,
\* else the dims entry of scale_dim_field if that is set, else the field's own
\* resolved dimension, and the value is scaled by the factor of that
\* dimension; a scale_dim_field whose dims entry is None resolves to None (no
\* scaling), it does not fall through to the field's own dimension.
C9_SecondaryDimOrder ==
    (ConvertedNumber /\ Custom(args.transform)) =>
        /\ ret.scale_dim = SecondaryDim(args)
        /\ ret.scaled =
              Some(IF SecondaryDim(args) # None
                   THEN Mul(RawValue, PowDec(CallFactor(SecondaryDim(args)[1]),
                                             ret.exponent[1]))
                   ELSE RawValue)

\* A pressure field whose transform names a scale_dim_field with a None dims
\* entry, between systems whose pressure factor is not 1: no dimension
\* resolved and the value is the raw value.
C9_Witness ==
    /\ ConvertedNumber
    /\ Custom(args.transform)
    /\ args.transform[1].scale_dim = None
    /\ args.transform[1].scale_dim_field # None
    /\ args.transform[1].scale_dim_field[1] \in DOMAIN args.dims
    /\ args.dims[args.transform[1].scale_dim_field[1]] = None
    /\ OwnDim(args) = Some(Pressure)
    /\ CallFactor(Pressure) # One
    /\ ret.scale_dim = None
    /\ ret.scaled = Some(RawValue)

\* The exponent C10 names for the transform t and the record context.
SecondaryExponent(t, context) ==
    IF t.scale_power_field # None /\ t.scale_power_field[1] \in DOMAIN context
    THEN context[t.scale_power_field[1]]
    ELSE IF t.scale_power # None THEN t.scale_power[1]
    ELSE One

\* The numbers a block's fields hold by name, text and skip slots left out.
NumbersOf(spec, block, data_idxs) ==
    {[name |-> spec.cards[k][j],
      val |-> FloatParse(Strip(split_fixed(block[data_idxs[k]])[j])).val] :
        <<k, j>> \in {kj \in (1..Len(spec.cards)) \X (1..N_FIELDS) :
                        /\ spec.cards[kj[1]][kj[2]] \notin SkipMarkers
                        /\ ~NonNumeric(split_fixed(block[data_idxs[kj[1]]])[kj[2]])}}

\* C10 (secondary-exponent resolution order): scale_exponent returns
\* context[scale_power_field] when scale_power_field is set and a key of the
\* context, else scale_power when set, else 1.  In a block convert_block
\* rewrites, a transform whose scale_power_field names a field that the block
\* does not have, or that holds text, gets scale_power or 1, without error; one
\* that names a numeric field gets that number.
C10_SecondaryExponentOrder ==
    /\ Returned("scale_exponent") => ret = SecondaryExponent(args.self, args.context)
    /\ (Returned("convert_block") /\ ret.rewritten /\ args.custom_transforms # None
            /\ args.spec.name \in DOMAIN args.custom_transforms[1]) =>
          \A k \in 1..Len(ret.fields) : \A j \in 1..Len(ret.fields[k]) :
              (/\ args.spec.cards[k][j] \in DOMAIN args.custom_transforms[1][args.spec.name]
               /\ ret.fields[k][j].numeric
               /\ ret.fields[k][j].exponent # None) =>
                  \/ \E n \in NumbersOf(args.spec, args.block, ret.data_idxs) :
                        /\ Some(n.name) = args.custom_transforms[1][args.spec.name]
                                             [args.spec.cards[k][j]].scale_power_field
                        /\ ret.fields[k][j].exponent = Some(n.val)
                  \/ /\ \A n \in NumbersOf(args.spec, args.block, ret.data_idxs) :
                           Some(n.name) # args.custom_transforms[1][args.spec.name]
                                              [args.spec.cards[k][j]].scale_power_field
                     /\ ret.fields[k][j].exponent =
                           Some(SecondaryExponent(
                                    args.custom_transforms[1][args.spec.name]
                                        [args.spec.cards[k][j]], EmptyDict))

\* A rewritten block in which one transform reads its exponent from a field
\* that holds text and got its scale_power 2, and another reads it from a
\* field the spec does not have and got 1.
C10_Witness ==
    /\ Returned("convert_block")
    /\ ret.rewritten
    /\ args.custom_transforms # None
    /\ args.spec.name \in DOMAIN args.custom_transforms[1]
    /\ args.spec.cards[1][3] = "b"
    /\ "b" \in DOMAIN args.custom_transforms[1][args.spec.name]
    /\ args.custom_transforms[1][args.spec.name]["b"].scale_power_field = Some("r2")
    /\ NonNumeric(split_fixed(args.block[ret.data_idxs[1]])[5])
    /\ ret.fields[1][3].exponent = Some(Dec(2, 0))
    /\ "e0" \in DOMAIN args.custom_transforms[1][args.spec.name]
    /\ ret.fields[1][7].exponent = Some(One)
    /\ ret.fields[1][2].exponent = Some(Dec(4, 0))

\* The transform reads scale_dim_field f, and f is no key of dims.
NamesUnknownField(t, dims) ==
    /\ t # None
    /\ t[1].scale_dim_field # None
    /\ t[1].scale_dim_field[1] \notin DOMAIN dims

\* The custom transform of the slot (k, j) of the block call, or None.
SlotTransform(k, j) ==
    IF /\ args.custom_transforms # None
       /\ args.spec.name \in DOMAIN args.custom_transforms[1]
       /\ args.spec.cards[k][j] \in DOMAIN args.custom_transforms[1][args.spec.name]
    THEN Some(args.custom_transforms[1][args.spec.name][args.spec.cards[k][j]])
    ELSE None

\* The slots of the block call that hold a number under a name that is no
\* skip marker.
NumericSlots ==
    {kj \in (1..Len(args.spec.cards)) \X (1..N_FIELDS) :
        /\ args.spec.cards[kj[1]][kj[2]] \notin SkipMarkers
        /\ ~NonNumeric(split_fixed(args.block[ret.data_idxs[kj[1]]])[kj[2]])}

\* C11 as the specification states it: whenever a field's transform declares
\* a scale_dim_field that has no entry in dims, converting the field fails.
C11_UnknownScaleDimFieldAsStated ==
    (Returned("_convert_field") /\ NamesUnknownField(args.transform, args.dims))
        => ret.raised

\* C11 (UnknownScaleDimField), amended: _convert_field raises ValueError,
\* naming the scale_dim_field and the field, exactly when the token is
\* numeric and its transform has no scale_dim and a scale_dim_field that is no
\* key of dims; a blank or text token, or a transform with scale_dim set,
\* raises nothing.  convert_block raises exactly when the block is not
\* malformed and one of its numeric non-skip fields has such a transform, and
\* then neither it nor convert_text returns any line.
C11_UnknownScaleDimField ==
    /\ Returned("_convert_field") =>
          /\ ret.raised <=> (/\ ~NonNumeric(args.raw_field)
                             /\ NamesUnknownField(args.transform, args.dims)
                             /\ args.transform[1].scale_dim = None)
          /\ ret.raised =>
                /\ ret.out = None
                /\ ret.error # None
                /\ ret.error[1].type = "ValueError"
                /\ ret.error[1].names
                      = <<args.transform[1].scale_dim_field[1], args.field_name>>
    /\ Returned("convert_block") =>
          /\ ret.raised <=>
                (/\ DataLineCount(args.block) >= Len(args.spec.cards)
                 /\ \E kj \in NumericSlots :
                       /\ NamesUnknownField(SlotTransform(kj[1], kj[2]), args.spec.dims)
                       /\ SlotTransform(kj[1], kj[2])[1].scale_dim = None)
          /\ ret.raised => (ret.out = <<>> /\ ret.error # None)
    /\ (Returned("convert_text") /\ ret.raised) =>
          /\ ret.out = <<>>
          /\ ret.lines = <<>>
          /\ ret.error # None
          /\ ret.error[1].type = "ValueError"

\* A document whose JWL block converts and whose Gruneisen block has a
\* numeric field c under a transform that reads the dimension of "nope":
\* convert_text raised, naming "nope" and "c", and returned nothing.
C11_Witness ==
    /\ Returned("convert_text")
    /\ args.text = GruneisenDocument
    /\ args.src # args.dst
    /\ ret.raised
    /\ ret.error = Some([type |-> "ValueError", text |-> "Unknown scale_dim_field",
                         names |-> <<"nope", "c">>])
    /\ ret.out = <<>>

\* The raw number of the field call scaled as the resolution rules say.
ScaledAsSpecified ==
    IF Custom(args.transform)
    THEN IF SecondaryDim(args) # None
         THEN Mul(RawValue, PowDec(CallFactor(SecondaryDim(args)[1]),
                                   SecondaryExponent(args.transform[1], args.context)))
         ELSE RawValue
    ELSE IF OwnDim(args) # None THEN Mul(RawValue, CallFactor(OwnDim(args)[1]))
    ELSE RawValue

\* (v ** power) * multiplier + offset
PowerAffine(t, v) == Add(Mul(PowDec(v, t.power), t.multiplier), t.offset)

\* C12 (post-scaling transform): for a numeric field with a transform, the
\* text returned is the formatting of (scaled ** power) * multiplier + offset,
\* scaled being the raw value after unit scaling; with power 1, multiplier 1
\* and offset 0 that is the scaled value; with no transform the scaled value
\* is formatted directly.
C12_PostScalingTransform ==
    ConvertedNumber =>
        /\ ret.scaled = Some(ScaledAsSpecified)
        /\ ret.value = Some(IF args.transform # None
                            THEN PowerAffine(args.transform[1], ScaledAsSpecified)
                            ELSE ScaledAsSpecified)
        /\ ret.out = format_lsdyna_10(ret.value[1])
        /\ (/\ args.transform # None
            /\ args.transform[1].power = One
            /\ args.transform[1].multiplier = One
            /\ args.transform[1].offset = Dec(0, 0)) => ret.value = ret.scaled

\* A pressure under power 2 and multiplier 3, between systems whose pressure
\* factor is not 1: the value is 3 * (raw * factor)^2, which differs from
\* 3 * raw^2 scaled by the factor.
C12_Witness ==
    /\ ConvertedNumber
    /\ args.transform # None
    /\ ~Custom(args.transform)
    /\ args.transform[1].power = Dec(2, 0)
    /\ args.transform[1].multiplier = Dec(3, 0)
    /\ OwnDim(args) = Some(Pressure)
    /\ CallFactor(Pressure) # One
    /\ ret.value = Some(Mul(Dec(3, 0), PowInt(Mul(RawValue, CallFactor(Pressure)), 2)))
    /\ ret.value # Some(Mul(Mul(Dec(3, 0), PowInt(RawValue, 2)), CallFactor(Pressure)))

\* The raw 10-character field of the slot (k, j) of the block call.
SlotRaw(k, j) == split_fixed(args.block[ret.data_idxs[k]])[j]

\* The slots of the block call that hold a number, have no custom transform,
\* and whose name has no dimension in the dims map of the spec.
DimensionlessSlots ==
    {kj \in NumericSlots :
        /\ SlotTransform(kj[1], kj[2]) = None
        /\ \/ args.spec.cards[kj[1]][kj[2]] \notin DOMAIN args.spec.dims
           \/ args.spec.dims[args.spec.cards[kj[1]][kj[2]]] = None}

\* The names of *EOS_JWLB that the specification lists as pressures.
JwlbPressureNames == {"a1", "a2", "a3", "a4", "a5", "c", "e"}

\* C13 (dimensionless fields keep their value): a numeric field with no
\* transform whose name has no entry, or a None entry, in dims is multiplied
\* by no factor: its value is the number read and its text is the formatting
\* of that number, whatever the unit systems.  In a rewritten *EOS_JWLB block
\* without custom transforms a1..a5, c and e are the number read times the
\* pressure factor and every other numeric field but eosid is the number read.
C13_DimensionlessKeepValue ==
    /\ (/\ ConvertedNumber
        /\ args.transform = None
        /\ OwnDim(args) = None) =>
          /\ ret.value = Some(RawValue)
          /\ ret.out = format_lsdyna_10(RawValue)
    /\ (Returned("convert_block") /\ ret.rewritten) =>
          /\ \A kj \in DimensionlessSlots :
                /\ ret.fields[kj[1]][kj[2]].value
                      = Some(FloatParse(Strip(SlotRaw(kj[1], kj[2]))).val)
                /\ split_fixed(ret.out[ret.data_idxs[kj[1]]])[kj[2]]
                      = Rjust(format_lsdyna_10(FloatParse(Strip(SlotRaw(kj[1], kj[2]))).val),
                              FIELD_WIDTH)
          /\ (args.spec = EOS_JWLB /\ args.custom_transforms = None) =>
                \A kj \in NumericSlots :
                    /\ (kj \in DimensionlessSlots)
                          <=> (args.spec.cards[kj[1]][kj[2]] \notin JwlbPressureNames)
                    /\ (kj \notin DimensionlessSlots) =>
                          ret.fields[kj[1]][kj[2]].value
                              = Some(Mul(FloatParse(Strip(SlotRaw(kj[1], kj[2]))).val,
                                         CallFactor(<<1, -1, -2>>)))

\* The *EOS_JWLB block of the test converted from cm-g-us to m-kg-s, where
\* the pressure factor is 10^11: a1 = 490.07 became 4.9007e13 while the r, al,
\* bl and rl lines and omega and v0 hold the numbers they held.
C13_Witness ==
    /\ Returned("convert_block")
    /\ args.spec = EOS_JWLB
    /\ args.custom_transforms = None
    /\ args.src = "cm-g-us"
    /\ args.dst = "m-kg-s"
    /\ ret.rewritten
    /\ CallFactor(<<1, -1, -2>>) = Dec(1, 11)
    /\ ret.fields[1][2].value = Some(Dec(49007, 9))
    /\ ret.fields[6][2].value = Some(Dec(3027, -4))
    /\ ret.out[3] = JwlbRows[2]
    /\ ret.out[7] = Row(<<"7.1e+09", "0.3027", "6.656e+09", "0.613127", "", "", "", "">>)
    /\ Cardinality(DimensionlessSlots) = 22

\* The line of a split_fixed call without its one trailing newline.
Core(line) ==
    IF line # <<>> /\ line[Len(line)] = "\n" THEN SubSeq(line, 1, Len(line) - 1) ELSE line

\* C14 (split_fixed shape): for every line split_fixed returns 8 strings of
\* 10 characters; character c of field k (both counted from 0) is character
\* 10k + c of the line without its trailing newline where the line reaches
\* that far and a space where it does not; what lies beyond column 80 is in
\* no field.
C14_SplitFixedShape ==
    Returned("split_fixed") =>
        /\ Len(ret) = 8
        /\ \A k \in 0..7 :
              /\ Len(ret[k + 1]) = 10
              /\ \A c \in 0..9 :
                    ret[k + 1][c + 1] = IF 10 * k + c < Len(Core(args.line))
                                        THEN Core(args.line)[10 * k + c + 1] ELSE " "

\* A line of more than 80 columns with a trailing newline: the last field
\* is columns 71..80 and the fields together are shorter than the line.
C14_Witness ==
    /\ Returned("split_fixed")
    /\ Len(args.line) > 82
    /\ args.line[Len(args.line)] = "\n"
    /\ ret[8] = SubSeq(args.line, 71, 80)
    /\ ret[8] = Chars("       1.0")
    /\ Concat(ret) # Core(args.line)

\* The positions of the characters of s that are no whitespace.
Kept(s) == {i \in 1..Len(s) : ~IsSpace(s[i])}

\* s without its leading and trailing whitespace, by position.
Stripped(s) ==
    IF Kept(s) = {} THEN <<>>
    ELSE SubSeq(s, CHOOSE i \in Kept(s) : \A j \in Kept(s) : i <= j,
                CHOOSE i \in Kept(s) : \A j \in Kept(s) : i >= j)

\* The first 10 characters of s, or s when it has no more.
Cut(s) == [i \in 1..(IF Len(s) > 10 THEN 10 ELSE Len(s)) |-> s[i]]

\* C15 (join_fixed columns): for a list of n fields join_fixed returns 10n
\* characters and one newline; column i holds the stripped field i, cut to
\* its first 10 characters, at its right end and spaces before it.
C15_JoinFixedColumns ==
    Returned("join_fixed") =>
        /\ Len(ret) = 10 * Len(args.fields) + 1
        /\ ret[Len(ret)] = "\n"
        /\ \A i \in 1..Len(args.fields) :
              \A c \in 1..10 :
                  ret[10 * (i - 1) + c]
                      = IF c <= 10 - Len(Cut(Stripped(args.fields[i]))) THEN " "
                        ELSE Cut(Stripped(args.fields[i]))[
                                 c - (10 - Len(Cut(Stripped(args.fields[i]))))]

\* Two fields, the first of 12 characters, the second short: the line is 21
\* characters, the first column holds the first 10 characters of the long
\* field and the second column the short one behind spaces.
C15_Witness ==
    /\ Returned("join_fixed")
    /\ args.fields = <<Chars("123456789012"), Chars(" 1.0  ")>>
    /\ ret = Chars("1234567890       1.0\n")

\* Every field of the list is at most 10 characters long after stripping.
Conforming(fields) == \A i \in 1..Len(fields) : Len(Stripped(fields[i])) <= 10

\* C16 (codec round trip): for 8 fields of at most 10 characters each after
\* stripping, the stripped fields of split_fixed(join_fixed(fields)) are the
\* stripped input fields in order; and for every line, join_fixed of
\* split_fixed of join_fixed(split_fixed(line)) is join_fixed(split_fixed(line)).
C16_CodecRoundTrip ==
    /\ (/\ Returned("split_join")
        /\ Len(args.fields) = 8
        /\ Conforming(args.fields)) =>
          /\ Len(ret.fields) = 8
          /\ \A i \in 1..8 : Stripped(ret.fields[i]) = Stripped(args.fields[i])
    /\ Returned("join_split") => ret.twice = ret.once

\* Eight conforming fields, among them a blank one, one of exactly 10
\* characters between blanks and one with an inner blank, none of which
\* comes back as it went in although all come back stripped.
C16_Witness ==
    /\ Returned("split_join")
    /\ Len(args.fields) = 8
    /\ Conforming(args.fields)
    /\ \E i \in 1..8 : args.fields[i] = Chars(" 1234567890 ")
    /\ \E i \in 1..8 : args.fields[i] = Chars("a b")
    /\ \E i \in 1..8 : Stripped(args.fields[i]) = <<>>
    /\ \A i \in 1..8 : Stripped(ret.fields[i]) = Stripped(args.fields[i])
    /\ \E i \in 1..8 : ret.fields[i] # args.fields[i]

\* The precisions of the chain as the specification lists them.
GPrecisions == <<9, 8, 7, 6, 5, 4>>

EPrecisions == <<4, 3, 2, 1, 0>>

\* Rendering i of the chain for v: six general-format renderings, five
\* scientific ones, and the first 10 characters of the precision-3 one.
Candidate(v, i) ==
    IF i <= 6 THEN FormatG(v, GPrecisions[i])
    ELSE IF i <= 11 THEN FormatE(v, EPrecisions[i - 6])
    ELSE Cut(FormatE(v, 3))

\* C17 (format_lsdyna_10 chain): zero gives "0.0"; any other value gives the
\* first of the general-format renderings of precision 9 down to 4 and then
\* the E renderings of precision 4 down to 0 that is at most 10 characters
\* long, or the first 10 characters of the precision-3 E rendering when none
\* is; every result is at most 10 characters long.
C17_FormatChain ==
    Returned("format_lsdyna_10") =>
        /\ Len(ret) <= 10
        /\ (args.v.m = 0) => (ret = Chars("0.0"))
        /\ (args.v.m # 0) =>
              \E i \in 1..12 :
                  /\ ret = Candidate(args.v, i)
                  /\ (i <= 11) => (Len(Candidate(args.v, i)) <= 10)
                  /\ \A j \in 1..(i - 1) : Len(Candidate(args.v, j)) > 10

\* -1.738e-117: no general-format rendering fits (the shortest has 11
\* characters), nor do the E renderings of precision 4 and 3; the result is
\* the E rendering of precision 2.
C17_Witness ==
    /\ Returned("format_lsdyna_10")
    /\ args.v = Dec(-1738, -120)
    /\ \A i \in 1..8 : Len(Candidate(args.v, i)) > 10
    /\ Candidate(args.v, 6) = Chars("-1.738e-117")
    /\ ret = Chars("-1.74E-117")

\* A call of convert_string, or of KunitConverter(...).convert_text, returned.
ApiReturned == Returned("convert_string") \/ Returned("KunitConverter")

\* The unit key of the api call that is not registered: src if it is not, dst
\* otherwise.
BadKey == IF args.src \notin UnitKeys THEN args.src ELSE args.dst

\* A model name the api call asks for is no name of a registered spec.
AsksUnknownModel ==
    /\ ~("str" \in DOMAIN args.models /\ Lower(Stripped(args.models.str)) = Chars("all"))
    /\ \E i \in 1..Len(ModelNames(args.models)) :
          \A k \in 1..Len(ALL_SPECS) :
              Chars(ALL_SPECS[k].name) # ModelNames(args.models)[i]

\* C18 (unknown registry keys rejected before conversion): a convert_string
\* or KunitConverter call whose src or dst is no registered unit key fails
\* with a ValueError that names the bad key and lists the registered keys; a
\* call that asks for an unregistered model name fails with a ValueError that
\* lists the registered model names; in both cases convert_text is not called
\* and no text is returned.
C18_UnknownKeysRejected ==
    /\ (ApiReturned /\ (args.src \notin UnitKeys \/ args.dst \notin UnitKeys)) =>
          /\ ret.raised = "ValueError"
          /\ ret.error # None
          /\ ret.error[1].text = "Unknown unit key"
          /\ ret.error[1].names = <<BadKey>>
          /\ ret.error[1].known = UnitKeys
          /\ ~ret.invoked
          /\ ret.out = None
    /\ (ApiReturned /\ args.src \in UnitKeys /\ args.dst \in UnitKeys
            /\ AsksUnknownModel) =>
          /\ ret.raised = "ValueError"
          /\ ret.error # None
          /\ ret.error[1].text = "Unknown models"
          /\ ret.error[1].known = {ALL_SPECS[k].name : k \in 1..Len(ALL_SPECS)}
          /\ ~ret.invoked
          /\ ret.out = None

\* The *EOS_JWLB block of the api call converted under the spec of
\* kunit/models/eos_jwlb.py.
JwlbConverted ==
    Concat(convert_block(<<Chars("*EOS_JWLB\n")>> \o JwlbRows, EOS_JWLB,
                         BASE_SYSTEMS[args.src], BASE_SYSTEMS[args.dst], None))

\* C19 ('eos-jwlb' is a registered model): list_models() returns a list that
\* holds 'eos-jwlb', and convert_string with models='eos-jwlb' converts an
\* *EOS_JWLB document under the six-card spec of eos_jwlb.py instead of
\* failing: from cm-g-us to m-kg-s, a1..a5, c and e are multiplied by the
\* pressure factor and eosid is left as it is.
C19_EosJwlbRegistered ==
    /\ Returned("list_models") =>
          /\ ret.raised = ""
          /\ \E i \in 1..Len(ret.v) : ret.v[i] = "eos-jwlb"
    /\ (/\ Returned("convert_string")
        /\ args.models = [str |-> Chars("eos-jwlb")]
        /\ args.text = JwlbText
        /\ args.src = "cm-g-us"
        /\ args.dst = "m-kg-s") =>
          /\ ret.raised = ""
          /\ ret.out = JwlbConverted
          /\ OutputFields(ret.out, 2)
                = split_fixed(Row(<<"4", "4.9007e+13", "5.6868e+12", "8.2426e+10",
                                    "93000000", "0.0", "", "">>))

\* The JSON value is a list of exactly three integers.
ThreeIntegers(j) ==
    /\ j.t = "list"
    /\ Len(j.v) = 3
    /\ \A i \in 1..3 : j.v[i].t = "int"

\* The value the mapping cfg gives the key k is absent, null, or passes the test.
Supplied(cfg, k, Test(_)) ==
    \A i \in 1..Len(cfg) : (cfg[i][1] = k /\ cfg[i][2].t # "null") => Test(cfg[i][2])

IsJStr(j) == j.t = "str"

\* The field configuration is a mapping whose dimensions are three integers
\* and whose field names are strings.
ValidConfig(cfg) ==
    /\ cfg.t = "map"
    /\ Supplied(cfg.v, "dim", ThreeIntegers)
    /\ Supplied(cfg.v, "scale_dim", ThreeIntegers)
    /\ Supplied(cfg.v, "scale_dim_field", IsJStr)
    /\ Supplied(cfg.v, "scale_power_field", IsJStr)

\* Every spec-level entry is a mapping of valid field configurations.
ValidTransforms(raw) ==
    \A i \in 1..Len(raw) :
        /\ raw[i][2].t = "map"
        /\ \A j \in 1..Len(raw[i][2].v) : ValidConfig(raw[i][2].v[j][2])

\* The key k is absent from the configuration of field "a" of the first spec.
Omitted(k) == \A i \in 1..Len(args.raw[1][2].v[1][2].v) : args.raw[1][2].v[1][2].v[i][1] # k

\* C20 (custom-transform validation): parse_custom_transforms raises
\* ValueError whenever a supplied dim or scale_dim is not a list of exactly
\* three integers (wrong length, no sequence, or an element such as 1.5), a
\* supplied scale_dim_field or scale_power_field is not a string, or a
\* spec-level or field-level entry is no mapping; where it returns, an
\* omitted power, multiplier or offset is 1, 1 or 0 and every other omitted
\* key is None.
C20_CustomTransformValidation ==
    Returned("parse_custom_transforms") =>
        /\ ~ValidTransforms(args.raw) => (ret.raised = "ValueError")
        /\ (ret.raised = "" /\ args.raw # <<>>) =>
              /\ Omitted("power") => (ret.v["eos-jwl"]["a"].power = One)
              /\ ret.v["eos-jwl"]["a"].multiplier = One
              /\ ret.v["eos-jwl"]["a"].offset = Dec(0, 0)
              /\ Omitted("dim") => (ret.v["eos-jwl"]["a"].dim = None)
              /\ Omitted("scale_dim") => (ret.v["eos-jwl"]["a"].scale_dim = None)
              /\ Omitted("scale_dim_field") => (ret.v["eos-jwl"]["a"].scale_dim_field = None)
              /\ Omitted("scale_power_field")
                    => (ret.v["eos-jwl"]["a"].scale_power_field = None)
              /\ ret.v["eos-jwl"]["a"].scale_power = None

\* The lines of the document of a convert_text call.
InputLines == SplitLines(args.text, <<>>)

\* C21 (no partial success): a conversion call returns the whole converted
\* document or fails with a validation error (ValueError) and returns no
\* text; and when convert_text fails, no field of any block had been
\* converted: the lines emitted up to then are input lines as they came in
\* and no field of the failing block had been scaled.
C21_NoPartialSuccess ==
    /\ ApiReturned =>
          \/ ret.raised = "" /\ ret.out # None
          \/ ret.raised = "ValueError" /\ ret.out = None /\ ~ret.invoked
    /\ Returned("convert_text") =>
          IF ret.raised
          THEN /\ ret.out = <<>>
               /\ ret.converted = 0
               /\ ret.partial = SubSeq(InputLines, 1, Len(ret.partial))
          ELSE Len(ret.lines) = Len(InputLines)

\* The positions in args.specs of the specs whose upper-cased prefix starts
\* the upper-cased, left-trimmed line.
Matching(line) ==
    {k \in 1..Len(args.specs) :
        StartsWith(Upper(LStrip(line)), Upper(args.specs[k].keyword_prefix))}

Lowest(S) == CHOOSE k \in S : \A j \in S : k <= j

\* The lines of the input that one iteration of the scan consumed.
StepLines(st) == SubSeq(InputLines, st.i, st.next - 1)

\* C24: for every line at which an iteration of convert_text starts, the spec
\* applied is the one earliest in the supplied list among those whose prefix
\* starts the line: the lines emitted for its block are convert_block's for
\* that spec, however many later specs match too; a line that no prefix
\* starts is emitted unchanged.
C24_FirstMatchWins ==
    (Returned("convert_text") /\ ~ret.raised) =>
        \A n \in 1..Len(ret.trace) :
            IF Matching(InputLines[ret.trace[n].i]) = {}
            THEN /\ ret.trace[n].matched = None
                 /\ ret.trace[n].next = ret.trace[n].i + 1
                 /\ ret.lines[ret.trace[n].i] = InputLines[ret.trace[n].i]
            ELSE /\ ret.trace[n].matched =
                        Some(args.specs[Lowest(Matching(InputLines[ret.trace[n].i]))].name)
                 /\ SubSeq(ret.lines, ret.trace[n].i, ret.trace[n].next - 1) =
                        convert_block(StepLines(ret.trace[n]),
                                      args.specs[Lowest(Matching(InputLines[ret.trace[n].i]))],
                                      BASE_SYSTEMS[args.src], BASE_SYSTEMS[args.dst],
                                      args.custom_transforms).out

\* A keyword line that two of the supplied specs match, the later one by the
\* longer prefix, whose block was rewritten; and a line that none matches.
C24_Witness ==
    /\ pc = "returned"
    /\ call = "convert_text"
    /\ ~ret.raised
    /\ \E n \in 1..Len(ret.trace) :
          /\ Cardinality(Matching(InputLines[ret.trace[n].i])) = 2
          /\ Len(args.specs[1].keyword_prefix) < Len(args.specs[2].keyword_prefix)
          /\ ret.trace[n].matched = Some(args.specs[1].name)
          /\ SubSeq(ret.lines, ret.trace[n].i, ret.trace[n].next - 1) # StepLines(ret.trace[n])
    /\ \E n \in 1..Len(ret.trace) : ret.trace[n].matched = None

\* The lines after line i whose left-trimmed form starts with "*".
StarsAfter(i) == {j \in (i + 1)..Len(InputLines) : StartsWith(LStrip(InputLines[j]), <<"*">>)}

\* C25: the block of a matched line i is line i and the lines after it up to,
\* and without, the next line whose left-trimmed form starts with "*", or up
\* to the end of the input; the scan goes on at that "*" line, so that the
\* iterations consume consecutive, disjoint runs of lines from the first on.
C25_BlockCollection ==
    Returned("convert_text") =>
        /\ \A n \in 1..Len(ret.trace) :
              /\ ret.trace[n].i = IF n = 1 THEN 1 ELSE ret.trace[n - 1].next
              /\ ret.trace[n].matched # None =>
                    ret.trace[n].next =
                        IF StarsAfter(ret.trace[n].i) = {} THEN Len(InputLines) + 1
                        ELSE Lowest(StarsAfter(ret.trace[n].i))
        /\ (~ret.raised /\ ret.trace # <<>>) => ret.trace[Len(ret.trace)].next = Len(InputLines) + 1

\* A block of the keyword line alone, ended by a matching keyword line; a
\* block with comment, blank and data lines, ended by a "*" line behind
\* blanks that no spec matches; and a block ended by the end of the input.
C25_Witness ==
    /\ pc = "returned"
    /\ call = "convert_text"
    /\ ~ret.raised
    /\ \E n \in 1..(Len(ret.trace) - 1) :
          /\ ret.trace[n].matched # None
          /\ ret.trace[n].next = ret.trace[n].i + 1
          /\ ret.trace[n + 1].matched # None
    /\ \E n \in 1..(Len(ret.trace) - 1) :
          /\ ret.trace[n].matched # None
          /\ ret.trace[n].next > ret.trace[n].i + 3
          /\ InputLines[ret.trace[n].next][1] = " "
          /\ ret.trace[n + 1].matched = None
    /\ ret.trace[Len(ret.trace)].matched # None
    /\ ret.trace[Len(ret.trace)].next > ret.trace[Len(ret.trace)].i + 1

\* The first 10 columns of the line, stripped.
FirstField(line) == Strip(SubSeq(line, 1, SeqMin(FIELD_WIDTH, Len(line))))

\* The line is non-blank, its left-trimmed form starts with neither "*" nor
\* "$", and its first field is a number.
Qualifies(line) ==
    /\ \E i \in 1..Len(line) : ~IsSpace(line[i])
    /\ ~StartsWith(LStrip(line), <<"*">>)
    /\ ~StartsWith(LStrip(line), <<"$">>)
    /\ is_number(FirstField(line))

\* The keyword line is a _TITLE variant that the spec matches by a prefix
\* without _TITLE.
TitleVariant(line, spec) ==
    /\ StartsWith(Upper(LStrip(line)), Upper(spec.keyword_prefix) \o Chars("_TITLE"))

\* The lines of the block that are "$" comment lines.
CommentLines(block) == {i \in 2..Len(block) : StartsWith(LStrip(block[i]), <<"$">>)}

\* The first line after the title line that is no comment line.
AfterTitle(block) == Lowest({i \in 3..Len(block) : i \notin CommentLines(block)})

\* C26: _is_data_line(line) is true exactly when the line is non-blank, starts
\* after its leading blanks with neither "*" nor "$", and has a number in its
\* first 10 columns; and in the block of a _TITLE variant the title line (the
\* line after the keyword line) and the "$" lines are never data lines and are
\* emitted unchanged, the line after them being converted with the first card.
C26_DataLineCriterion ==
    /\ Returned("_is_data_line") => (ret.value <=> Qualifies(args.line))
    /\ (/\ Returned("convert_block")
        /\ TitleVariant(args.block[1], args.spec)
        /\ Len(args.block) >= 3
        /\ \E i \in 3..Len(args.block) : i \notin CommentLines(args.block))
          => /\ ~ret.raised
             /\ ret.data_idxs # <<>>
             /\ ret.data_idxs[1] # 2
             /\ \A k \in 1..Len(ret.data_idxs) : ret.data_idxs[k] \notin CommentLines(args.block)
             /\ ret.out[2] = args.block[2]
             /\ \A i \in CommentLines(args.block) : ret.out[i] = args.block[i]

\* The criterion of C26 alone.
DataLineIff == Returned("_is_data_line") => (ret.value <=> Qualifies(args.line))

\* The slots of the block call whose name is the given one.
SlotsNamed(name) ==
    {kj \in (1..Len(args.spec.cards)) \X (1..N_FIELDS) : args.spec.cards[kj[1]][kj[2]] = name}

\* The numeric slots whose transform reads its exponent from a field that a
\* numeric slot of the block holds.
PowerReaders ==
    {kj \in NumericSlots :
        /\ SlotTransform(kj[1], kj[2]) # None
        /\ SlotTransform(kj[1], kj[2])[1].scale_power_field # None
        /\ SlotsNamed(SlotTransform(kj[1], kj[2])[1].scale_power_field[1]) \cap NumericSlots # {}}

\* The slot that the transform of a power reader names.
ReadSlot(kj) ==
    CHOOSE s \in SlotsNamed(SlotTransform(kj[1], kj[2])[1].scale_power_field[1]) \cap NumericSlots : TRUE

\* C27: in a rewritten block the record context holds, for every numeric
\* non-skip field of the paired data lines, the number read from the input
\* line, and the exponent that a field takes from scale_power_field is that
\* number, wherever the field referred to stands (earlier card, same card,
\* later card) and whether or not it is converted itself.
C27_ContextBeforeRewrite ==
    (Returned("convert_block") /\ ret.rewritten) =>
        /\ \A kj \in NumericSlots :
              /\ args.spec.cards[kj[1]][kj[2]] \in DOMAIN ret.context
              /\ Cardinality(SlotsNamed(args.spec.cards[kj[1]][kj[2]])) = 1
                    => ret.context[args.spec.cards[kj[1]][kj[2]]] = Float(SlotRaw(kj[1], kj[2]))
        /\ \A kj \in PowerReaders :
              Cardinality(SlotsNamed(args.spec.cards[ReadSlot(kj)[1]][ReadSlot(kj)[2]])) = 1
                 => ret.fields[kj[1]][kj[2]].exponent =
                       Some(Float(SlotRaw(ReadSlot(kj)[1], ReadSlot(kj)[2])))

\* A rewritten block with power readers that refer to a later card, to an
\* earlier card, and to a later and an earlier slot of their own card, the
\* fields referred to being rewritten to other numbers than those read.
C27_Witness ==
    /\ pc = "returned"
    /\ call = "convert_block"
    /\ ret.rewritten
    /\ \E kj \in PowerReaders : ReadSlot(kj)[1] > kj[1]
    /\ \E kj \in PowerReaders : ReadSlot(kj)[1] < kj[1]
    /\ \E kj \in PowerReaders : ReadSlot(kj)[1] = kj[1] /\ ReadSlot(kj)[2] > kj[2]
    /\ \E kj \in PowerReaders : ReadSlot(kj)[1] = kj[1] /\ ReadSlot(kj)[2] < kj[2]
    /\ \A kj \in PowerReaders :
          /\ ret.fields[ReadSlot(kj)[1]][ReadSlot(kj)[2]].value #
                Some(Float(SlotRaw(ReadSlot(kj)[1], ReadSlot(kj)[2])))
          /\ ret.fields[kj[1]][kj[2]].exponent # Some(One)

\* The number of qualifying lines among the first i lines of the block.
Rank(block, i) == Cardinality({j \in 1..i : Qualifies(block[j])})

\* The line that convert_block writes for a data line paired with a card:
\* the fields of the line converted under the names of the card, joined.
CardLine(line, card) ==
    join_fixed([j \in 1..SeqMin(Len(card), N_FIELDS) |->
                   RewriteField([name |-> card[j], raw |-> split_fixed(line)[j]], args.spec,
                                BASE_SYSTEMS[args.src], BASE_SYSTEMS[args.dst],
                                SpecTransforms(args.spec, args.custom_transforms),
                                ret.context).out])

\* C28: where a block has at least len(spec.cards) qualifying data lines, the
\* k-th of the first len(spec.cards) of them holds, in the block returned,
\* the line converted under the names of the k-th card, and every other line
\* (keyword, comment, title and blank lines, and data lines beyond the
\* cards) is the input line at its position.
C28_OnlyFirstCardsRewritten ==
    (/\ Returned("convert_block")
     /\ ~ret.raised
     /\ Rank(args.block, Len(args.block)) >= Len(args.spec.cards))
        => /\ Len(ret.out) = Len(args.block)
           /\ \A i \in 1..Len(args.block) :
                 ret.out[i] =
                    IF Qualifies(args.block[i]) /\ Rank(args.block, i) <= Len(args.spec.cards)
                    THEN CardLine(args.block[i], args.spec.cards[Rank(args.block, i)])
                    ELSE args.block[i]

\* A block of three data lines and a comment line under a spec of two cards,
\* converted between different systems: the first two data lines change, and
\* the third, equal to the first, stays as it is.
C28_Witness ==
    /\ pc = "returned"
    /\ call = "convert_block"
    /\ ~ret.raised
    /\ Len(args.spec.cards) = 2
    /\ Rank(args.block, Len(args.block)) = 3
    /\ \E i \in 1..Len(args.block) : StartsWith(args.block[i], <<"$">>) /\ ret.out[i] = args.block[i]
    /\ \E i, j \in 1..Len(args.block) :
          /\ i < j
          /\ args.block[i] = args.block[j]
          /\ Rank(args.block, i) = 1
          /\ Rank(args.block, j) = 3
          /\ ret.out[i] # args.block[i]
          /\ ret.out[j] = args.block[j]
          /\ CardLine(args.block[j], args.spec.cards[1]) # args.block[j]

\* The specs of the registry.
Registered == {ALL_SPECS[n] : n \in 1..Len(ALL_SPECS)}

\* 8 columns of 10 characters and one line break after them.
EightColumns(line) ==
    /\ Len(line) = FIELD_WIDTH * N_FIELDS + 1
    /\ line[Len(line)] = "\n"
    /\ \A i \in 1..(Len(line) - 1) : line[i] # "\n"

\* C29: every registered spec has at least one card and 8 slots on every
\* card, and every data line that convert_block rewrites under a card of 8
\* slots is 8 columns of 10 characters and a line break, whatever the length
\* of the input line and the numbers written.
C29_ColumnAlignment ==
    /\ \A spec \in Registered :
          /\ Len(spec.cards) >= 1
          /\ \A k \in 1..Len(spec.cards) : Len(spec.cards[k]) = N_FIELDS
    /\ (Returned("convert_block") /\ ret.rewritten) =>
          \A k \in 1..Len(args.spec.cards) :
              Len(args.spec.cards[k]) = N_FIELDS => EightColumns(ret.out[ret.data_idxs[k]])

\* A registered spec whose block holds a data line shorter than 80 columns
\* and one that runs past column 80 without a line break, both rewritten.
C29_Witness ==
    /\ pc = "returned"
    /\ call = "convert_block"
    /\ ret.rewritten
    /\ args.spec \in Registered
    /\ args.src # args.dst
    /\ \E k \in 1..Len(args.spec.cards) : Len(args.block[ret.data_idxs[k]]) < 30
    /\ \E k \in 1..Len(args.spec.cards) :
          /\ Len(args.block[ret.data_idxs[k]]) > 85
          /\ args.block[ret.data_idxs[k]][Len(args.block[ret.data_idxs[k]])] # "\n"
    /\ \A k \in 1..Len(args.spec.cards) : EightColumns(ret.out[ret.data_idxs[k]])

\* The lines of the input inside the block of a matched keyword line.
InBlocks ==
    {i \in 1..Len(InputLines) :
        \E n \in 1..Len(ret.trace) :
            /\ ret.trace[n].matched # None
            /\ ret.trace[n].i <= i
            /\ i < ret.trace[n].next}

\* C30: every iteration of the scan leaves the line index higher than it
\* found it, so that there are at most as many iterations as lines; the text
\* returned has one line for every line of the input, in order, the lines
\* outside the blocks of matched keyword lines being the input lines; and
\* with no spec, or no line that a spec matches, the text returned is the
\* input.
C30_SinglePassScan ==
    Returned("convert_text") =>
        /\ \A n \in 1..Len(ret.trace) : ret.trace[n].next > ret.trace[n].i
        /\ Len(ret.trace) <= Len(InputLines)
        /\ ~ret.raised =>
              /\ Len(ret.lines) = Len(InputLines)
              /\ ret.out = Concat(ret.lines)
              /\ SplitLines(ret.out, <<>>) = ret.lines
              /\ \A i \in 1..Len(InputLines) : i \notin InBlocks => ret.lines[i] = InputLines[i]
              /\ (\A i \in 1..Len(InputLines) : Matching(InputLines[i]) = {}) => ret.out = args.text

\* A document with lines before, between and after its matched blocks, whose
\* last line, a data line without a line break, is rewritten with one.
C30_Witness ==
    /\ pc = "returned"
    /\ call = "convert_text"
    /\ ~ret.raised
    /\ args.text[Len(args.text)] # "\n"
    /\ Len(InputLines) > 8
    /\ InBlocks # {}
    /\ 1 \in InBlocks
    /\ Len(InputLines) \in InBlocks
    /\ \E i \in 1..Len(InputLines) : i \notin InBlocks
    /\ ret.lines[Len(InputLines)] # InputLines[Len(InputLines)]
    /\ Len(ret.trace) < Len(InputLines)

MaterialsReturned == Returned("export_materials") \/ Returned("convert_materials")

\* The lines of the k-th material before its identifiers are rewritten: its
\* .k text, converted to the destination units by convert_materials.
BaseLinesOf(k) ==
    IF call = "export_materials"
    THEN SplitLines(MaterialRecord_to_k(args.materials[k]), <<>>)
    ELSE SplitLines(WithNewline(ConvertStringBody(MaterialRecord_to_k(args.materials[k]),
                                                  args.materials[k].units, args.dst_units,
                                                  [str |-> Chars("all")], None).out), <<>>)

\* For every line of the lines above, the place of its material in the
\* sequence.
OwnerOf(lines) == Concat([k \in 1..Len(lines) |-> [n \in 1..Len(lines[k]) |-> k]])

\* The keyword line of the block that line i stands in.
KeywordOf(base, i) ==
    CHOOSE j \in 1..i :
        /\ StartsWith(LStrip(base[j]), <<"*">>)
        /\ \A n \in (j + 1)..i : ~StartsWith(LStrip(base[n]), <<"*">>)

\* The names of the card that the data line i is paired with.
CardOfLine(base, i) ==
    FirstMatch(Upper(LStrip(base[KeywordOf(base, i)])), ALL_SPECS)[1].cards[
        Cardinality({n \in KeywordOf(base, i)..i : Qualifies(base[n])})]

\* The lines out are the lines base with the identifier fields of every data
\* line set to the place of its material.
IdentifiersRewritten(out, base, owner) ==
    /\ Len(out) = Len(base)
    /\ \A i \in 1..Len(base) :
          IF Qualifies(base[i])
          THEN \A j \in 1..N_FIELDS :
                  Strip(split_fixed(out[i])[j]) =
                      IF CardOfLine(base, i)[j] \in {"mid", "eosid"}
                      THEN NatStr(owner[i])
                      ELSE Strip(split_fixed(base[i])[j])
          ELSE out[i] = base[i]

\* C23: export_materials and convert_materials return the materials in input
\* order, and in the data lines of the k-th material's blocks every "mid" and
\* "eosid" field reads k, whatever identifier the payload held, every other
\* field keeps its (converted) value, and every other line is as it was.
C23_SharedAutoIncrementIds ==
    MaterialsReturned =>
        /\ ret.raised = ""
        /\ IdentifiersRewritten(SplitLines(ret.out, <<>>),
                                Concat([k \in 1..Len(args.materials) |-> BaseLinesOf(k)]),
                                OwnerOf([k \in 1..Len(args.materials) |-> BaseLinesOf(k)]))

\* convert_text run alone, for every choice of the arguments of a call.
AloneCalls ==
    [text \in ThreadTexts, d \in ThreadDsts, custom \in ThreadCustoms |->
        convert_text(text, ALL_SPECS, BASE_SYSTEMS["mm-mg-us"], BASE_SYSTEMS[d], custom)]

\* convert_text run alone on the arguments of the call that thread t is in.
Alone(t) == AloneCalls[worker[t].text, worker[t].dst, worker[t].custom_transforms]

\* The call of the frame has ended as the call run alone has.
SameAs(frame, alone) ==
    IF frame.at = "done"
    THEN ~alone.raised /\ frame.result = alone.out
    ELSE alone.raised /\ frame.error = alone.error

\* C22: however the steps of concurrent calls of convert_text interleave,
\* every call returns the text, or raises the error, that it returns or
\* raises when run alone on its arguments; and BASE_SYSTEMS, the spec list
\* and the custom transform map are at every moment what they were before
\* the calls.
C22_ConcurrentCallsIndependent ==
    /\ heap.BASE_SYSTEMS = BASE_SYSTEMS
    /\ heap.specs = ALL_SPECS
    /\ heap.custom_transforms \in ThreadCustoms
    /\ \A t \in Threads :
          /\ worker[t].at # "idle" => worker[t].custom_transforms = heap.custom_transforms
          /\ worker[t].at \in {"done", "raised"} => SameAs(worker[t], Alone(t))

\* A call under a custom transform map has returned its converted text after
\* steps of another call, on a document with another r1, were interleaved
\* with its own; the other call holds a context of its own and is about to
\* read it.
C22_Witness ==
    /\ worker[1].at = "done"
    /\ worker[1].interleaved
    /\ worker[1].result # worker[1].text
    /\ heap.custom_transforms # None
    /\ worker[2].at = "rewrite"
    /\ worker[2].interleaved
    /\ worker[2].text # worker[1].text
    /\ worker[2].matched = Some(EOS_JWL)
    /\ heap.contexts[2] # EmptyDict

====
